---- MODULE Spec2Model ----
(***************************************************************************)
(* A model of the search-mcp aggregator: the token-bucket rate limiter     *)
(* (src/security/rate-limiter.ts), the backend manager and its clients     *)
(* (mcp-client-manager.ts / mcp-client.ts) and the stdio dispatcher        *)
(* (src/index.ts).                                                         *)
(*                                                                         *)
(* Token counts are JavaScript numbers in the source.  They are kept here  *)
(* in fixed point: one token is Scale units, one clock tick is 1/Scale     *)
(* second, so that elapsedSeconds * refillRate is a whole number of units. *)
(***************************************************************************)
EXTENDS Integers, Sequences, FiniteSets, Bags, TLC

\* ------------------------------------------------------------------ bounds
\* fixed-point units per token, and clock ticks per second
Scale == 2
\* the clock stops advancing at MaxTime ticks
MaxTime == 3
\* cleanup()'s maxAge (one hour in the source), scaled to ticks
MaxAge == 2
\* the largest cost a caller passes to checkLimit (the smallest is -1)
MaxCost == 2

\* the number of request lines the client writes to stdin
MaxReq == 3

VARIABLES
    buckets,      \* RateLimiter.buckets: identifier -> TokenBucket, or NoBucket
    now,          \* Date.now(), in ticks
    rlLast,       \* what the last rate-limiter call saw and returned
    tier,         \* the RateLimitConfig of tier 'default' (setTierConfig)
    initialized,  \* index.ts: let initialized
    clients,      \* MCPClientManager.clients: the registered server names
    proc,         \* MCPClient.process of the registered client: "null" or "spawned"
    tools,        \* MCPClientManager.tools: the catalog
    req,          \* one handleRequest invocation per request line
    out,          \* the JSON-RPC responses written to stdout, per request id
    fwd,          \* the tools/call requests written to backends, per request id
    stdoutNoise,  \* what else was written to stdout: "console.log" by the manager,
                  \* "audit console.log" by AuditLogger.logToConsole
    lastComplete, \* the catalog as the last finished aggregateTools left it
    authEnabled,  \* index.ts: const authEnabled (AUTH_ENABLED === 'true')
    callArgs,     \* params.arguments of the request line with each id
    apiKeys,      \* AuthManager.apiKeys: key id -> ApiKey
    keysFile,     \* the API-key file (AUTH_KEYS_FILE) on disk
    issued,       \* how many keys generateApiKey has drawn from randomBytes
    authLast,     \* what the last AuthManager call saw and returned
    eventCounter, \* AuditLogger.eventCounter
    logFile,      \* the lines of the audit log file, as the buffer
                  \* specification (BufferSpec) follows them
    accepted,     \* every event the audit logger took into its buffer and
                  \* cleanup has not dropped, in order of arrival
    lastCall,     \* the last call of a function that keeps no state: what
                  \* it was given and what came of it
    child,        \* MCPClient.process of the client ClientSpec follows: "null",
                  \* "running", or "exited" (the field still holds the object)
    requestId,    \* MCPClient.requestId
    pendingRequests, \* MCPClient.pendingRequests: the ids with a waiter
    written,      \* the request lines written to the child's stdin: the
                  \* method of the request with each id
    timers,       \* the setTimeout timers that have not fired yet
    clientNow,    \* the time of the event loop, in ticks
    settled,      \* per request id, every call of its resolve or reject
    initDue,      \* start's 100 ms timer is armed
    clientLast,   \* what the last call on the client did
    spawns,       \* how many child processes start() has spawned
    lineReader,   \* MCPClient.readline is not null
    awaiting,     \* the request ids whose caller still awaits the promise
                  \* sendRequest returned
    clientOf,     \* MCPClientManager.clients as OwnerSpec follows it: server
                  \* name -> the MCPClient instance registered under it
    alive,        \* the child processes that were spawned and have not exited
    stubborn,     \* the children that do not exit on SIGTERM
    signalled,    \* the children process.kill() has sent SIGTERM to
    generation,   \* how many times loadConfig has created clients
    batching,     \* the executeParallel call BatchSpec follows: its arguments,
                  \* createBatches' i and batches, and its results
    uncleaned,    \* the buckets of a RateLimiter that gets the same calls
                  \* but whose cleanup never runs
    uncleanedLast, \* what its last checkLimit returned
    managerAuthEnabled, \* AuthManager.authEnabled of the instance index.ts holds
    life,         \* the process: "running", "eof" (stdin closed) or "exited"
    events,       \* AuditLogger.events: a bag where only its content matters,
                  \* a sequence in BufferSpec
    signal,       \* the signal whose handler is in progress, or "none"
    reported      \* the tools/list replies of the catalog rebuild in progress:
                  \* server name -> the tool names it reported

rlVars == <<buckets, now, rlLast>>
inputVars == <<authEnabled, callArgs>>
keyVars == <<apiKeys, keysFile, issued, authLast>>
auditVars == <<eventCounter, logFile, accepted>>
libVars == <<lastCall>>
clientVars == <<child, requestId, pendingRequests, written, timers, clientNow,
                settled, initDue, clientLast, spawns, lineReader, awaiting>>
ownerVars == <<clientOf, alive, stubborn, signalled, generation>>
batchVars == <<batching>>
shadowVars == <<uncleaned, uncleanedLast>>
\* the variables of the specifications that follow one component alone
sideVars == <<libVars, clientVars, ownerVars, batchVars, shadowVars>>
dispVars == <<tier, initialized, clients, proc, tools, req, out, fwd,
              stdoutNoise, lastComplete, inputVars, keyVars, auditVars,
              sideVars, managerAuthEnabled, life,
              events, signal, reported>>
vars == <<buckets, now, rlLast, tier, initialized, clients, proc, tools, req,
          out, fwd, stdoutNoise, lastComplete, inputVars, keyVars, auditVars,
          sideVars, managerAuthEnabled,
          life, events, signal, reported>>

\* ------------------------------------------------------------ rate limiter
NoBucket == [none |-> TRUE]

\* bucket keys `${tier}:${identifier}` built by TieredRateLimiter.checkLimit
Ids == {"default:anonymous", "default:k1"}

\* the RateLimitConfig values a tier can carry: the spec's scenario tier
\* (refillRate 0) and a refilling one
TierConfigs ==
    { [maxTokens |-> 1, refillRate |-> 0],
      [maxTokens |-> 1, refillRate |-> 1],
      [maxTokens |-> 2, refillRate |-> 1] }

Costs == (-1) .. MaxCost

Min(a, b) == IF a <= b THEN a ELSE b

\* Math.floor of a fixed-point token count
Floor(units) == units \div Scale

\* refillBucket: tokens = min(maxTokens, tokens + elapsedSeconds * refillRate)
RefillBucket(bucket, t) ==
    [bucket EXCEPT
        !.tokens = Min(bucket.maxTokens * Scale,
                       bucket.tokens + (t - bucket.lastRefill) * bucket.refillRate),
        !.lastRefill = t]

\* the bucket checkLimit works on: the stored one, or a fresh full one
BucketFor(bs, id, config, t) ==
    IF bs[id] = NoBucket
    THEN [tokens |-> config.maxTokens * Scale, lastRefill |-> t,
          maxTokens |-> config.maxTokens, refillRate |-> config.refillRate]
    ELSE bs[id]

\* Math.ceil((tokensNeeded / refillRate) * 1000 / 1000); a division by a zero
\* refillRate is Infinity in the source
RetryAfter(bucket, cost) ==
    LET needed == cost * Scale - bucket.tokens
        perSec == bucket.refillRate * Scale
    IN  IF bucket.refillRate = 0 THEN "Infinity"
        ELSE (needed + perSec - 1) \div perSec

EnoughTokens_Strict(bucket, cost) == bucket.tokens > cost * Scale

\* the test `bucket.tokens >= cost`
EnoughTokens(bucket, cost) == bucket.tokens >= cost * Scale

\* the value reported as `remaining` on the allowed path
RemainingAfter(bucket) == Floor(bucket.tokens)

evictFrame ==
    <<tier, initialized, clients, proc, tools, req, out, fwd, stdoutNoise,
      lastComplete, inputVars, keyVars, auditVars, libVars, clientVars,
      ownerVars, batchVars, managerAuthEnabled, life, events, signal,
      reported>>

\* checkLimit: the bucket as stored afterwards and the RateLimitResult
CheckLimit(bs, id, config, cost, t) ==
    LET b0 == BucketFor(bs, id, config, t)
        b1 == RefillBucket(b0, t)
    IN  IF EnoughTokens(b1, cost)
        THEN LET b2 == [b1 EXCEPT !.tokens = b1.tokens - cost * Scale]
             IN  [bucket |-> b2, allowed |-> TRUE,
                  remaining |-> RemainingAfter(b2), retryAfter |-> "undefined",
                  held |-> b1.tokens, added |-> b1.tokens - b0.tokens]
        ELSE [bucket |-> b1, allowed |-> FALSE,
              remaining |-> 0, retryAfter |-> RetryAfter(b1, cost),
              held |-> b1.tokens, added |-> b1.tokens - b0.tokens]

NoCall == [op |-> "none"]

RLInit ==
    /\ buckets = [id \in Ids |-> NoBucket]
    /\ now = 0
    /\ rlLast = NoCall

\* RateLimiter.checkLimit(identifier, config, cost)
RLCheckLimit(id, config, cost) ==
    LET r == CheckLimit(buckets, id, config, cost, now)
    IN  /\ buckets' = [buckets EXCEPT ![id] = r.bucket]
        /\ rlLast' = [op |-> "checkLimit", id |-> id, cost |-> cost,
                      fresh |-> (buckets[id] = NoBucket),
                      max |-> r.bucket.maxTokens,
                      held |-> r.held, added |-> r.added,
                      allowed |-> r.allowed, remaining |-> r.remaining,
                      retryAfter |-> r.retryAfter, left |-> r.bucket.tokens]
        /\ UNCHANGED now

\* RateLimiter.getRemainingTokens(identifier)
RLGetRemainingTokens(id) ==
    /\ IF buckets[id] = NoBucket
       THEN /\ UNCHANGED buckets
            /\ rlLast' = [op |-> "getRemainingTokens", id |-> id, remaining |-> 0]
       ELSE LET b == RefillBucket(buckets[id], now)
            IN  /\ buckets' = [buckets EXCEPT ![id] = b]
                /\ rlLast' = [op |-> "getRemainingTokens", id |-> id,
                              remaining |-> Floor(b.tokens)]
    /\ UNCHANGED now

\* RateLimiter.getStats(): refills every bucket
RLGetStats ==
    /\ buckets' = [id \in Ids |->
                     IF buckets[id] = NoBucket THEN NoBucket
                     ELSE RefillBucket(buckets[id], now)]
    /\ rlLast' = [op |-> "getStats"]
    /\ UNCHANGED now

\* a cleanup() that asks only how long the bucket has been idle
Evictable_IgnoresFull(bucket, t) == t - bucket.lastRefill > MaxAge

\* the test of cleanup(): idle for more than maxAge and full
Evictable(bucket, t) ==
    /\ t - bucket.lastRefill > MaxAge
    /\ bucket.tokens >= bucket.maxTokens * Scale

\* RateLimiter.cleanup(), run by the interval timer
RLCleanup ==
    /\ buckets' = [id \in Ids |->
                     IF buckets[id] # NoBucket /\ Evictable(buckets[id], now)
                     THEN NoBucket ELSE buckets[id]]
    /\ rlLast' = [op |-> "cleanup"]
    /\ UNCHANGED now

\* RateLimiter.reset(identifier)
RLReset(id) ==
    /\ buckets[id] # NoBucket
    /\ buckets' = [buckets EXCEPT ![id] = NoBucket]
    /\ rlLast' = [op |-> "reset", id |-> id]
    /\ UNCHANGED now

\* the clock advances between calls
RLTick ==
    /\ now < MaxTime
    /\ now' = now + 1
    /\ UNCHANGED <<buckets, rlLast>>

RLNext ==
    \/ \E id \in Ids, config \in TierConfigs, cost \in Costs :
           RLCheckLimit(id, config, cost)
    \/ \E id \in Ids : RLGetRemainingTokens(id)
    \/ RLGetStats
    \/ RLCleanup
    \/ \E id \in Ids : RLReset(id)
    \/ RLTick

\* ------------------------------------------------------------------ names
\* A name is a sequence of pieces; the piece "." is the separator character.
Dot == "."

\* mcp-servers.json: the configured servers, in file order
ServerOrder == << <<"e">>, <<"o">>, <<"d">> >>
ConfigServers == { ServerOrder[k] : k \in 1 .. Len(ServerOrder) }

\* the servers the file configures with enabled: false
DisabledInConfig == { <<"d">> }

Enabled_Ignored(s) == TRUE

\* loadConfig's test `serverConfig.enabled !== false`
Enabled(s) == s \notin DisabledInConfig

\* the servers whose configured command makes spawn() throw on some runs
MaySpawnThrow == { <<"o">> }

\* the tool names each backend returns from tools/list
RawTools(s) ==
    IF s = <<"e">> THEN { <<"s">>, <<"s", Dot, "t">> } ELSE { <<"s">> }

\* the description each backend reports for a tool: backend o reports its
\* tools without one (the field is optional in a tools/list reply)
RawDescription(s, r) == IF s = <<"o">> THEN "undefined" ELSE "text"

\* the inputSchema each backend reports for a tool: every tool has one but
\* e's tool s.t
RawInputSchema(s, r) == IF r = <<"s", Dot, "t">> THEN "undefined" ELSE "object"

ExecuteParallelName == << "execute_parallel" >>

\* index.ts allInternalTools
InternalTools ==
    { <<"search_tools">>, <<"advanced_search">>, <<"list_servers">>,
      <<"health_check">>, <<"query_audit_logs">>, <<"get_audit_stats">>,
      <<"execute_parallel">>, <<"get_rate_limit_stats">>, <<"get_cache_stats">> }

\* params.name of the tools/call requests the client sends (<<>>: no name)
CallNames ==
    { <<>>, <<"list_servers">>, <<"e", Dot, "s">>, <<"e", Dot, "s", Dot, "t">>,
      <<"o", Dot, "s">>, <<"x", Dot, "s">> }

DotCount(name) == Cardinality({ k \in 1 .. Len(name) : name[k] = Dot })

\* the index of the first "." of a name, 0 when it has none
FirstDot(name) ==
    IF DotCount(name) = 0 THEN 0
    ELSE CHOOSE k \in 1 .. Len(name) :
            /\ name[k] = Dot
            /\ \A j \in 1 .. (k - 1) : name[j] # Dot

\* aggregateTools: `${serverName}.${tool.name}`
QualifiedName(server, raw) == server \o <<Dot>> \o raw

\* toolName.split('.')
RECURSIVE Split(_)
Split(name) ==
    IF FirstDot(name) = 0 THEN << name >>
    ELSE << SubSeq(name, 1, FirstDot(name) - 1) >>
            \o Split(SubSeq(name, FirstDot(name) + 1, Len(name)))

\* ----------------------------------------------------------------- errors
\* a thrown value: an MCPError (code, statusCode, details.retryAfter) or a
\* plain Error
PlainError == [mcp |-> FALSE, code |-> "none", statusCode |-> 0,
               retryAfter |-> "undefined"]
ValidationError == [mcp |-> TRUE, code |-> "VALIDATION_ERROR", statusCode |-> 400,
                    retryAfter |-> "undefined"]
ConfigurationError == [mcp |-> TRUE, code |-> "CONFIGURATION_ERROR",
                       statusCode |-> 500, retryAfter |-> "undefined"]
NoError == [mcp |-> FALSE, code |-> "no error", statusCode |-> 0,
            retryAfter |-> "undefined"]
AuthorizationError == [mcp |-> TRUE, code |-> "AUTHORIZATION_ERROR",
                       statusCode |-> 403, retryAfter |-> "undefined"]

\* errors.ts toMCPError
ToMCPError(e) ==
    IF e.mcp THEN e
    ELSE [mcp |-> TRUE, code |-> "INTERNAL_ERROR", statusCode |-> 500,
          retryAfter |-> "undefined"]

\* handleRequest's catch: the JSON-RPC code of a status code
JsonRpcCode(statusCode) ==
    IF statusCode = 400 THEN -32602
    ELSE IF statusCode = 404 THEN -32601
    ELSE -32000

\* sendResponse(id, result)
ResultResponse == [kind |-> "result", code |-> 0, dataCode |-> "none",
                   retryAfter |-> "undefined"]

\* sendError(id, code, message) without data
BareError(code) == [kind |-> "error", code |-> code, dataCode |-> "none",
                    retryAfter |-> "undefined"]

\* handleRequest's catch: sendError(id, jsonRpcCode, message, {code, details})
ErrorResponse(e) ==
    [kind |-> "error", code |-> JsonRpcCode(ToMCPError(e).statusCode),
     dataCode |-> ToMCPError(e).code, retryAfter |-> ToMCPError(e).retryAfter]

\* ------------------------------------------------------------ audit logger
\* A parameter key is a sequence of characters.
ApiKeyKey == << "a", "p", "i", "K", "e", "y" >>
QKey == << "q" >>
PasswordKey == << "p", "a", "s", "s", "w", "o", "r", "d" >>
UpperApiKeyKey == << "A", "P", "I", "_", "K", "E", "Y" >>
AuthTokenKey == << "a", "u", "t", "h", "T", "o", "k", "e", "n" >>

\* the argument keys and values callers pass to tools
ArgKeys == { ApiKeyKey, QKey, PasswordKey, UpperApiKeyKey, AuthTokenKey }
ArgValues == { "SECRET", "ok" }

\* the largest number of arguments of one call
MaxArgs == 2

\* the largest number of events the audit log holds
MaxEvents == 2

\* the `parameters` objects passed to logToolExecution
ParamSets ==
    UNION { [ks -> ArgValues] :
              ks \in { x \in SUBSET ArgKeys : Cardinality(x) <= MaxArgs } }

\* `args || {}` of a call without arguments
NoArgs == << >>

\* String.prototype.toLowerCase, by character
LowerChar(c) ==
    CASE c = "A" -> "a" [] c = "E" -> "e" [] c = "I" -> "i" [] c = "K" -> "k"
      [] c = "P" -> "p" [] c = "T" -> "t" [] c = "Y" -> "y" [] OTHER -> c

ToLowerCase(str) == [k \in 1 .. Len(str) |-> LowerChar(str[k])]

\* String.prototype.includes
Includes(str, sub) ==
    \E k \in 0 .. (Len(str) - Len(sub)) : SubSeq(str, k + 1, k + Len(sub)) = sub

\* sanitizeParameters: const sensitiveKeys
SensitiveKeys ==
    { << "p", "a", "s", "s", "w", "o", "r", "d" >>,
      << "s", "e", "c", "r", "e", "t" >>,
      << "t", "o", "k", "e", "n" >>,
      << "a", "p", "i", "K", "e", "y" >>,
      << "a", "p", "i", "_", "k", "e", "y" >> }

Redacted == "***REDACTED***"

\* sanitizeParameters: sensitiveKeys.some(sk => key.toLowerCase().includes(sk))
IsSensitive(key) == \E sk \in SensitiveKeys : Includes(ToLowerCase(key), sk)

\* AuditLogger.sanitizeParameters
SanitizeParameters(params) ==
    [key \in DOMAIN params |->
        IF IsSensitive(key) THEN Redacted ELSE params[key]]

\* an AuditEvent; `given` remembers the parameters logToolExecution was
\* called with
AuditEvent(type, level, action, resource, result, parameters, given) ==
    [type |-> type, level |-> level, action |-> action, resource |-> resource,
     result |-> result, parameters |-> parameters, given |-> given]

\* the event logToolExecution builds
ToolExecutionEvent(toolName, params, result) ==
    AuditEvent("tool_execution", IF result = "success" THEN "info" ELSE "error",
               "execute", toolName, result, SanitizeParameters(params), params)

\* the events of index.ts' auditLogger.log calls in case 'initialize'
SystemEvent(result) ==
    AuditEvent("system", IF result = "success" THEN "info" ELSE "error",
               "initialize", << >>, result, NoArgs, NoArgs)

\* the event logRateLimit builds
RateLimitEvent ==
    AuditEvent("rate_limit", "warn", "rate_limit_exceeded", << >>, "failure",
               NoArgs, NoArgs)

\* AuditLogger.log: this.events.push(auditEvent)
Push(evs, e) == evs (+) SetToBag({e})

\* AuditLogger.logToolExecution called by any caller
AuditLogToolExecution(toolName, params, result) ==
    /\ BagCardinality(events) < MaxEvents
    /\ events' = Push(events, ToolExecutionEvent(toolName, params, result))

\* the audit logger alone, driven by arbitrary callers
AuditNext ==
    \E toolName \in { << "e", ".", "s" >> }, params \in ParamSets,
       result \in { "success", "failure" } :
        AuditLogToolExecution(toolName, params, result)

\* -------------------------------------------------------- input validator
\* A JavaScript value: its typeof ("null" for null) and, for a string its
\* length, for a number its value.
JsValue(type, n) == [type |-> type, n |-> n]
JsUndefined == JsValue("undefined", 0)

\* `undefined` of an optional field of a ToolParameter
NoLimit == -1

\* parameters[name]
Get(parameters, name) ==
    IF name \in DOMAIN parameters THEN parameters[name] ELSE JsUndefined

\* a ToolParameter of a tool's metadata
ToolParameter(name, type, required, minLength, minimum) ==
    [name |-> name, type |-> type, required |-> required,
     minLength |-> minLength, minimum |-> minimum]

\* validateString, validateNumber, validateBoolean behind validateType:
\* the kind of error, or "null"
ValidateType(value, param) ==
    CASE param.type = "string" ->
            IF value.type # "string" THEN "type"
            ELSE IF param.minLength # NoLimit /\ value.n < param.minLength
                 THEN "constraint" ELSE "null"
      [] param.type = "number" ->
            IF value.type # "number" THEN "type"
            ELSE IF param.minimum # NoLimit /\ value.n < param.minimum
                 THEN "constraint" ELSE "null"
      [] param.type = "boolean" ->
            IF value.type # "boolean" THEN "type" ELSE "null"
      [] OTHER -> "null"

\* InputValidator.validateToolParameters: the errors it collects
ValidationErrors(schema, parameters) ==
    { [kind |-> "missing", name |-> param.name] :
        param \in { q \in schema :
                      /\ q.required
                      /\ Get(parameters, q.name).type \in {"undefined", "null"} } }
    \cup
    { [kind |-> ValidateType(Get(parameters, param.name), param),
       name |-> param.name] :
        param \in { q \in schema :
                      /\ Get(parameters, q.name).type \notin {"undefined", "null"}
                      /\ ValidateType(Get(parameters, q.name), q) # "null" } }
    \cup
    { [kind |-> "unknown", name |-> paramName] :
        paramName \in { k \in DOMAIN parameters :
                          k \notin { q.name : q \in schema } } }

ValidateToolParameters(schema, parameters) ==
    [valid |-> ValidationErrors(schema, parameters) = {},
     errors |-> ValidationErrors(schema, parameters)]

\* InputValidator.validateOrThrow: does it throw ValidationError?
ValidateOrThrow(schema, parameters) ==
    ~ValidateToolParameters(schema, parameters).valid

XKey == << "x" >>

\* the parameters each tool declares: e.s takes a required string q of at
\* least one character, every other tool takes none
DeclaredParameters(n) ==
    IF n = << "e", ".", "s" >>
    THEN { ToolParameter(QKey, "string", TRUE, 1, NoLimit) }
    ELSE {}

\* params.arguments of the tools/call lines clients send: none, a valid q,
\* a number for q, an empty q, and a valid q next to an undeclared x
CallArgSets ==
    { NoArgs,
      (QKey :> JsValue("string", 2)),
      (QKey :> JsValue("number", 2)),
      (QKey :> JsValue("string", 0)),
      (QKey :> JsValue("string", 2)) @@ (XKey :> JsValue("string", 2)) }

\* ----------------------------------------------------------- audit buffer
\* log()'s limit on the events kept in memory (10 000 in the source), scaled
MaxBuffered == 2

\* the largest number of log() calls
MaxLogCalls == 3

\* retentionDays (90 days in the source), scaled to ticks
Retention == 1

\* shouldLog with minLevel 'info'
Levels == << "info", "warn", "error", "critical" >>
LevelIndex(level) == CHOOSE k \in 1 .. Len(Levels) : Levels[k] = level
ShouldLog(level) == LevelIndex(level) >= LevelIndex("info")

\* Array.prototype.slice(-n)
SliceLast(seq, n) ==
    IF Len(seq) <= n THEN seq ELSE SubSeq(seq, Len(seq) - n + 1, Len(seq))

\* Array.prototype.filter(e => new Date(e.timestamp).getTime() >= cutoffTime)
RECURSIVE KeepSince(_, _)
KeepSince(seq, cutoffTime) ==
    IF seq = << >> THEN << >>
    ELSE IF Head(seq).timestamp >= cutoffTime
         THEN << Head(seq) >> \o KeepSince(Tail(seq), cutoffTime)
         ELSE KeepSince(Tail(seq), cutoffTime)

bufferFrame ==
    <<buckets, rlLast, tier, initialized, clients, proc, tools, req, out, fwd,
      stdoutNoise, lastComplete, inputVars, keyVars, sideVars,
      managerAuthEnabled, life, signal, reported>>

\* AuditLogger.log(event)
BufferLog(level) ==
    /\ eventCounter < MaxLogCalls
    /\ eventCounter' = eventCounter + 1
    /\ LET auditEvent == [id |-> eventCounter + 1, timestamp |-> now,
                          level |-> level]
       IN  IF ~ShouldLog(level)
           THEN UNCHANGED <<events, logFile, accepted>>
           ELSE /\ events' = IF Len(events) + 1 > MaxBuffered
                             THEN SliceLast(Append(events, auditEvent), MaxBuffered)
                             ELSE Append(events, auditEvent)
                /\ logFile' = Append(logFile, auditEvent)
                /\ accepted' = Append(accepted, auditEvent)
    /\ UNCHANGED <<bufferFrame, now>>

\* AuditLogger.load(filePath) of the log file; every line parses
BufferLoad ==
    /\ Len(events) <= MaxBuffered
    /\ logFile # << >>
    /\ events' = events \o logFile
    /\ accepted' = accepted \o logFile
    /\ UNCHANGED <<bufferFrame, now, eventCounter, logFile>>

\* AuditLogger.cleanup()
BufferCleanup ==
    /\ events' = KeepSince(events, now - Retention)
    /\ accepted' = KeepSince(accepted, now - Retention)
    /\ UNCHANGED <<bufferFrame, now, eventCounter, logFile>>

\* time passes
BufferTick ==
    /\ now < MaxTime
    /\ now' = now + 1
    /\ UNCHANGED <<bufferFrame, events, auditVars>>

BufferNext ==
    \/ \E level \in { "info", "error" } : BufferLog(level)
    \/ BufferLoad
    \/ BufferCleanup
    \/ BufferTick

\* ------------------------------------------------------------------- auth
\* A permission is a sequence of pieces, with ":" and "*" pieces of their own.
Wildcard == << "*" >>

\* `tools:${name}`
ToolPermission(name) == << "tools", ":" >> \o name

\* index.ts: currentAuthContext, which no statement reassigns
CurrentAuthContext ==
    [apiKeyId |-> "anonymous", permissions |-> { Wildcard },
     authenticated |-> FALSE]

\* perm.endsWith(':*')
EndsWithColonStar(perm) ==
    /\ Len(perm) >= 2
    /\ perm[Len(perm) - 1] = ":"
    /\ perm[Len(perm)] = "*"

\* permission.startsWith(prefix)
StartsWith(str, prefix) ==
    /\ Len(prefix) <= Len(str)
    /\ SubSeq(str, 1, Len(prefix)) = prefix

\* hasPermission's three tests: wildcard, exact match, pattern match
PermissionMatches(permissions, permission) ==
    \/ Wildcard \in permissions
    \/ permission \in permissions
    \/ \E perm \in permissions :
          /\ EndsWithColonStar(perm)
          /\ StartsWith(permission, SubSeq(perm, 1, Len(perm) - 1))

\* AuthManager.hasPermission
HasPermission(authContext, permission) ==
    \/ ~managerAuthEnabled
    \/ PermissionMatches(authContext.permissions, permission)

\* --------------------------------------------------------------- API keys
\* the largest number of keys generateApiKey issues
MaxKeys == 1

\* the clock of the key store stops advancing at MaxKeyTime ticks
MaxKeyTime == 2

KeyIds == 1 .. MaxKeys

\* `undefined` of expiresAt and lastUsedAt
NoTime == -1

\* generateSecureKey: the plaintext drawn for the k-th key; the empty
\* sequence is the empty string
PlainKey(k) == << "smcp_", k >>

\* hashKey: SHA-256 of the plaintext, taken to be free of collisions
HashKey(key) == << "sha256" >> \o key

\* the plaintexts callers present: none, every issued one, one never issued
Plaintexts == { << >> } \cup { PlainKey(k) : k \in 0 .. MaxKeys }

\* expiresIn of generateApiKey, in ticks (0: no expiry)
ExpiresIns == { 0, 1 }

\* the permissions of the API key the calling client was issued
KeyPermissions == { << "tools", ":", "e", ".", "*" >> }

\* the API-key file does not exist
NoFile == [exists |-> FALSE, authEnabled |-> FALSE, apiKeys |-> << >>]

\* an API-key file without keys
EmptyKeysFile == [exists |-> TRUE, authEnabled |-> TRUE, apiKeys |-> << >>]

\* the ApiKey generateApiKey builds
NewApiKey(k, name, permissions, expiresIn, t) ==
    [id |-> k, key |-> PlainKey(k), hashedKey |-> HashKey(PlainKey(k)),
     name |-> name, permissions |-> permissions, createdAt |-> t,
     expiresAt |-> IF expiresIn # 0 THEN t + expiresIn ELSE NoTime,
     lastUsedAt |-> NoTime, enabled |-> TRUE]

\* saveToFile: the object written for one key, as JSON.stringify leaves it -
\* no plaintext, and no field whose value is undefined
SavedFields == { "id", "hashedKey", "name", "permissions", "createdAt",
                 "expiresAt", "lastUsedAt", "enabled" }

SavedKey(key) ==
    [f \in { g \in SavedFields : g \notin {"expiresAt", "lastUsedAt"}
                                    \/ key[g] # NoTime } |-> key[f]]

\* saveToFile: the file it writes
SavedFile(keys, enabled) ==
    [exists |-> TRUE, authEnabled |-> enabled,
     apiKeys |-> [id \in DOMAIN keys |-> SavedKey(keys[id])]]

\* a loadFromFile that takes every key of the file to be enabled
LoadedKey_AlwaysEnabled(obj) ==
    [id |-> obj.id, key |-> << >>, hashedKey |-> obj.hashedKey,
     name |-> obj.name, permissions |-> obj.permissions,
     createdAt |-> obj.createdAt,
     expiresAt |-> IF "expiresAt" \in DOMAIN obj THEN obj.expiresAt ELSE NoTime,
     lastUsedAt |-> IF "lastUsedAt" \in DOMAIN obj THEN obj.lastUsedAt ELSE NoTime,
     enabled |-> TRUE]

\* loadFromFile: { ...key, key: '' } of one parsed object
LoadedKey(obj) ==
    [id |-> obj.id, key |-> << >>, hashedKey |-> obj.hashedKey,
     name |-> obj.name, permissions |-> obj.permissions,
     createdAt |-> obj.createdAt,
     expiresAt |-> IF "expiresAt" \in DOMAIN obj THEN obj.expiresAt ELSE NoTime,
     lastUsedAt |-> IF "lastUsedAt" \in DOMAIN obj THEN obj.lastUsedAt ELSE NoTime,
     enabled |-> obj.enabled]

\* loadFromFile: this.apiKeys.set(key.id, apiKey) for every key of the file
LoadedKeys(keys, file) ==
    [id \in DOMAIN keys \cup DOMAIN file.apiKeys |->
        IF id \in DOMAIN file.apiKeys THEN LoadedKey(file.apiKeys[id])
        ELSE keys[id]]

\* validateApiKey with the enabled test left out
KeyUsable_IgnoresEnabled(key, t) ==
    ~(key.expiresAt # NoTime /\ key.expiresAt < t)

\* validateApiKey: the tests on the matching key
KeyUsable(key, t) ==
    /\ key.enabled
    /\ ~(key.expiresAt # NoTime /\ key.expiresAt < t)

AuthenticationError ==
    [mcp |-> TRUE, code |-> "AUTHENTICATION_ERROR", statusCode |-> 401,
     retryAfter |-> "undefined"]

\* validateApiKey: what it returns or throws
ValidateApiKey(keys, enabled, plain, t) ==
    LET matching == { id \in DOMAIN keys : keys[id].hashedKey = HashKey(plain) }
    IN  IF ~enabled
        THEN [threw |-> FALSE, apiKeyId |-> 0, authenticated |-> FALSE]
        ELSE IF plain = << >> \/ matching = {}
                \/ ~KeyUsable(keys[CHOOSE id \in matching : TRUE], t)
        THEN [threw |-> TRUE, apiKeyId |-> 0, authenticated |-> FALSE]
        ELSE [threw |-> FALSE, apiKeyId |-> CHOOSE id \in matching : TRUE,
              authenticated |-> TRUE]

keyFrame ==
    <<buckets, rlLast, tier, initialized, clients, proc, tools, req, out, fwd,
      stdoutNoise, lastComplete, authEnabled, callArgs, auditVars, sideVars, life, events,
      signal, reported>>

\* generateApiKey(name, permissions, expiresIn)
GenerateApiKey(permissions, expiresIn) ==
    /\ issued < MaxKeys
    /\ issued' = issued + 1
    /\ apiKeys' = ((issued + 1) :> NewApiKey(issued + 1, "name", permissions,
                                            expiresIn, now)) @@ apiKeys
    /\ authLast' = [op |-> "generate", id |-> issued + 1]
    /\ UNCHANGED <<keyFrame, now, keysFile, managerAuthEnabled>>

\* revokeApiKey(keyId)
RevokeApiKey(id) ==
    /\ apiKeys' = IF id \in DOMAIN apiKeys
                  THEN [apiKeys EXCEPT ![id].enabled = FALSE] ELSE apiKeys
    /\ authLast' = [op |-> "revoke", id |-> id]
    /\ UNCHANGED <<keyFrame, now, keysFile, issued, managerAuthEnabled>>

\* deleteApiKey(keyId)
DeleteApiKey(id) ==
    /\ apiKeys' = [k \in DOMAIN apiKeys \ {id} |-> apiKeys[k]]
    /\ authLast' = [op |-> "delete", id |-> id]
    /\ UNCHANGED <<keyFrame, now, keysFile, issued, managerAuthEnabled>>

\* saveToFile(filePath)
SaveToFile ==
    /\ keysFile' = SavedFile(apiKeys, managerAuthEnabled)
    /\ authLast' = [op |-> "save"]
    /\ UNCHANGED <<keyFrame, now, apiKeys, issued, managerAuthEnabled>>

\* loadFromFile(filePath)
LoadFromFile ==
    /\ IF keysFile.exists
       THEN /\ managerAuthEnabled' = keysFile.authEnabled
            /\ apiKeys' = LoadedKeys(apiKeys, keysFile)
       ELSE UNCHANGED <<managerAuthEnabled, apiKeys>>
    /\ authLast' = [op |-> "load"]
    /\ UNCHANGED <<keyFrame, now, keysFile, issued>>

\* new AuthManager().loadFromFile(filePath): the keys of the fresh manager
LoadIntoFresh ==
    /\ keysFile.exists
    /\ authLast' = [op |-> "loadFresh", keys |-> LoadedKeys(<< >>, keysFile)]
    /\ UNCHANGED <<keyFrame, now, apiKeys, keysFile, issued, managerAuthEnabled>>

\* setAuthEnabled(enabled)
SetAuthEnabled(enabled) ==
    /\ managerAuthEnabled' = enabled
    /\ authLast' = [op |-> "setAuthEnabled"]
    /\ UNCHANGED <<keyFrame, now, apiKeys, keysFile, issued>>

\* validateApiKey(apiKey)
CallValidateApiKey(plain) ==
    LET r == ValidateApiKey(apiKeys, managerAuthEnabled, plain, now)
    IN  /\ apiKeys' = IF r.authenticated
                      THEN [apiKeys EXCEPT ![r.apiKeyId].lastUsedAt = now]
                      ELSE apiKeys
        /\ authLast' = [op |-> "validate", plain |-> plain, at |-> now,
                        keys |-> apiKeys, enabled |-> managerAuthEnabled,
                        result |-> r]
        /\ UNCHANGED <<keyFrame, now, keysFile, issued, managerAuthEnabled>>

\* time passes
KeyTick ==
    /\ now < MaxKeyTime
    /\ now' = now + 1
    /\ UNCHANGED <<keyFrame, apiKeys, keysFile, issued, authLast,
                   managerAuthEnabled>>

KeyNext ==
    \/ \E permissions \in { {Wildcard}, KeyPermissions }, expiresIn \in ExpiresIns :
            GenerateApiKey(permissions, expiresIn)
    \/ \E id \in KeyIds : RevokeApiKey(id)
    \/ \E id \in KeyIds : DeleteApiKey(id)
    \/ SaveToFile
    \/ LoadFromFile
    \/ LoadIntoFresh
    \/ \E enabled \in BOOLEAN : SetAuthEnabled(enabled)
    \/ \E plain \in Plaintexts : CallValidateApiKey(plain)
    \/ KeyTick

\* ---------------------------------------------------------- tool registry
libFrame ==
    <<rlVars, tier, initialized, clients, proc, tools, req, out, fwd,
      stdoutNoise, lastComplete, inputVars, keyVars, auditVars, clientVars,
      ownerVars, batchVars, shadowVars,
      managerAuthEnabled, life, events, signal, reported>>

Param1Key == << "param1" >>
Param2Key == << "param2" >>

\* the names callers execute: two registered tools and one that is not
RegistryNames == { "test-tool", "test-tool-2", "non-existent" }

\* the registered tools' metadata.parameters: test-tool declares the
\* required string param1, test-tool-2 declares nothing
Registered ==
    [n \in { "test-tool", "test-tool-2" } |->
        IF n = "test-tool"
        THEN { ToolParameter(Param1Key, "string", TRUE, NoLimit, NoLimit) }
        ELSE {}]

\* the values callers pass
RegistryValues ==
    { JsValue("string", 2), JsValue("number", 2), JsValue("boolean", 1),
      JsValue("null", 0) }

\* the parameters objects callers pass
RegistryParams ==
    UNION { [ks -> RegistryValues] : ks \in SUBSET { Param1Key, Param2Key } }

NotInvoked == [invoked |-> FALSE, with |-> << >>]

\* ToolRegistry.execute(name, parameters) when the implementation throws
\* or returns its argument
RegistryExecute(name, parameters, implThrows) ==
    IF name \notin DOMAIN Registered
    THEN [threw |-> "TOOL_NOT_FOUND", call |-> NotInvoked, resolved |-> << >>]
    ELSE IF Registered[name] # {} /\ ValidateOrThrow(Registered[name], parameters)
    THEN [threw |-> "VALIDATION_ERROR", call |-> NotInvoked, resolved |-> << >>]
    ELSE IF implThrows
    THEN [threw |-> "TOOL_EXECUTION_ERROR",
          call |-> [invoked |-> TRUE, with |-> parameters], resolved |-> << >>]
    ELSE [threw |-> "none",
          call |-> [invoked |-> TRUE, with |-> parameters],
          resolved |-> parameters]

\* a caller executes a tool
CallRegistryExecute(name, parameters, implThrows) ==
    /\ lastCall' = [op |-> "execute", name |-> name, parameters |-> parameters,
                    implThrows |-> implThrows,
                    result |-> RegistryExecute(name, parameters, implThrows)]
    /\ UNCHANGED libFrame

RegistryNext ==
    \E name \in RegistryNames, parameters \in RegistryParams,
       implThrows \in BOOLEAN :
        CallRegistryExecute(name, parameters, implThrows)

\* ------------------------------------------------------ child environment
\* An environment value is a sequence of pieces; "${", a name and "}" are
\* pieces of their own.
EnvNames == { "HOME", "TOKEN" }

\* process.env of the aggregator: some of the names are set
ProcessEnvs ==
    UNION { [ns -> { << "a" >>, << "b" >> }] : ns \in SUBSET EnvNames }

\* the values a server's configured env may hold
ConfigValues ==
    { << "lit" >>,
      << "${", "TOKEN", "}" >>,
      << "x", "${", "HOME", "}" >>,
      << "${", "UNSET", "}" >> }

\* the env objects of a server configuration
ConfigEnvs ==
    UNION { [ks -> ConfigValues] : ks \in SUBSET { "KEY", "TOKEN" } }

\* { ...process.env, ...this.config.env }
SpreadEnv(processEnv, configEnv) ==
    [n \in DOMAIN processEnv \cup DOMAIN configEnv |->
        IF n \in DOMAIN configEnv THEN configEnv[n] ELSE processEnv[n]]

\* MCPClient.start: the env option given to spawn
SpawnWithEnv(processEnv, configEnv) ==
    /\ lastCall' = [op |-> "spawn", processEnv |-> processEnv,
                    configEnv |-> configEnv,
                    env |-> SpreadEnv(processEnv, configEnv)]
    /\ UNCHANGED libFrame

EnvNext ==
    \E processEnv \in ProcessEnvs, configEnv \in ConfigEnvs :
        SpawnWithEnv(processEnv, configEnv)

\* --------------------------------------------------------------- MCPClient
\* One MCPClient object: its child process, its table of pending requests
\* and the timers of its requests.
MaxClientReq == 2
\* the 30000 ms of sendRequest's setTimeout, in ticks
RequestTimeout == 2
MaxClientTime == 3
MaxSpawns == 2

RequestIds == 1 .. MaxClientReq
\* the ids a response line may carry: 0 is an id no request ever had
ResponseIds == 0 .. MaxClientReq
Methods == { "initialize", "tools/list", "tools/call" }

\* what the last call on the client did; for a response line, the id it
\* was dropped for with console.warn, and what that request's waiter had
\* been told by then
NoWarning == -1
Did(what) == [warned |-> NoWarning, settled |-> << what >>]

clientFrame ==
    <<rlVars, tier, initialized, clients, proc, tools, req, out, fwd,
      stdoutNoise, lastComplete, inputVars, keyVars, auditVars, libVars,
      ownerVars, batchVars, shadowVars,
      managerAuthEnabled, life, events, signal, reported>>

\* isRunning(): process.killed is set by process.kill() alone, which only
\* stop() calls, on the line before it sets the field to null
Killed == FALSE
ClientIsRunning == child # "null" /\ ~Killed

\* pending.resolve / pending.reject / reject: one more completion of the
\* waiter of request id
Settle(st, id, outcome) == [st EXCEPT ![id] = Append(@, outcome)]

\* stop(): reject(new Error('MCP client stopped')) for every table entry
RejectAll(st, ids) ==
    [id \in RequestIds |->
        IF id \in ids THEN Append(st[id], "MCP client stopped") ELSE st[id]]

\* start(): spawn the child, read its stdout line by line and arm the
\* 100 ms timer that initializes. start() tests nothing before it spawns;
\* a call while the previous child still runs is not followed here.
ClientStart ==
    /\ child \in { "null", "exited" }
    /\ spawns < MaxSpawns
    /\ child' = "running"
    /\ spawns' = spawns + 1
    /\ lineReader' = TRUE
    /\ initDue' = TRUE
    /\ clientLast' = Did("start")
    /\ UNCHANGED <<clientFrame, awaiting, requestId, pendingRequests, written, timers,
                   clientNow, settled>>

\* sendRequest(method, params)
SendRequest(method) ==
    IF child = "null"
    THEN /\ clientLast' = Did("MCP client not started")
         /\ UNCHANGED <<requestId, pendingRequests, written, timers, settled,
                        awaiting>>
    ELSE /\ requestId < MaxClientReq
         /\ clientNow + RequestTimeout <= MaxClientTime
         /\ requestId' = requestId + 1
         /\ pendingRequests' = pendingRequests \cup { requestId' }
         /\ written' = Append(written, method)
         /\ timers' = timers \cup
                { [id |-> requestId', due |-> clientNow + RequestTimeout] }
         /\ awaiting' = awaiting \cup { requestId' }
         /\ clientLast' = Did("sent")
         /\ UNCHANGED settled

\* the callback of start's 100 ms timer: initialize()
InitializeTimer ==
    /\ initDue
    /\ initDue' = FALSE
    /\ SendRequest("initialize")
    /\ UNCHANGED <<clientFrame, spawns, lineReader, child, clientNow>>

\* listTools() and callTool(name, args)
ClientCall(method) ==
    /\ SendRequest(method)
    /\ UNCHANGED <<clientFrame, spawns, lineReader, child, clientNow, initDue>>

\* the child exits on its own: 'exit' runs a console.log and nothing else
ChildExit ==
    /\ child = "running"
    /\ child' = "exited"
    /\ clientLast' = Did("exit logged")
    /\ UNCHANGED <<clientFrame, awaiting, spawns, lineReader, requestId,
                   pendingRequests, written, timers,
                   clientNow, settled, initDue>>

\* stop() without its pendingRequests.clear()
ClientStop_KeepsTable ==
    /\ lineReader' = FALSE
    /\ child' = "null"
    /\ settled' = RejectAll(settled, pendingRequests)
    /\ awaiting' = awaiting \ pendingRequests
    /\ clientLast' = Did(IF child = "null" /\ pendingRequests = {}
                          THEN "stop: nothing to do" ELSE "stop")
    /\ UNCHANGED <<clientFrame, spawns, requestId, pendingRequests, written,
                   timers, clientNow, initDue>>

\* stop()
ClientStop ==
    /\ lineReader' = FALSE
    /\ child' = "null"
    /\ settled' = RejectAll(settled, pendingRequests)
    /\ awaiting' = awaiting \ pendingRequests
    /\ pendingRequests' = {}
    /\ clientLast' = Did(IF child = "null" /\ pendingRequests = {}
                          THEN "stop: nothing to do" ELSE "stop")
    /\ UNCHANGED <<clientFrame, spawns, requestId, written, timers, clientNow,
                   initDue>>

\* handleResponse without its pendingRequests.delete
HandleResponse_KeepsEntry(id, isError) ==
    /\ child = "running"
    /\ IF id \notin pendingRequests
       THEN /\ clientLast' = [warned |-> id,
                            settled |-> IF id \in RequestIds
                                        THEN settled[id] ELSE << >>]
            /\ UNCHANGED <<pendingRequests, settled, awaiting>>
       ELSE /\ settled' = Settle(settled, id,
                                 IF isError THEN "rejected" ELSE "resolved")
            /\ awaiting' = awaiting \ { id }
            /\ clientLast' = [warned |-> NoWarning, settled |-> << >>]
            /\ UNCHANGED pendingRequests
    /\ UNCHANGED <<clientFrame, spawns, lineReader, child, requestId, written,
                   timers, clientNow, initDue>>

\* handleResponse(line): a line of the child's stdout with the given id
HandleResponse(id, isError) ==
    /\ child = "running"
    /\ IF id \notin pendingRequests
       THEN /\ clientLast' = [warned |-> id,
                            settled |-> IF id \in RequestIds
                                        THEN settled[id] ELSE << >>]
            /\ UNCHANGED <<pendingRequests, settled, awaiting>>
       ELSE /\ pendingRequests' = pendingRequests \ { id }
            /\ settled' = Settle(settled, id,
                                 IF isError THEN "rejected" ELSE "resolved")
            /\ awaiting' = awaiting \ { id }
            /\ clientLast' = [warned |-> NoWarning, settled |-> << >>]
    /\ UNCHANGED <<clientFrame, spawns, lineReader, child, requestId, written,
                   timers, clientNow, initDue>>

\* the callback of sendRequest's setTimeout
TimerFires(t) ==
    /\ t \in timers
    /\ t.due = clientNow
    /\ timers' = timers \ { t }
    /\ IF t.id \in pendingRequests
       THEN /\ pendingRequests' = pendingRequests \ { t.id }
            /\ settled' = Settle(settled, t.id, "Request timeout")
            /\ awaiting' = awaiting \ { t.id }
       ELSE UNCHANGED <<pendingRequests, settled, awaiting>>
    /\ clientLast' = Did("timer")
    /\ UNCHANGED <<clientFrame, spawns, lineReader, child, requestId, written, clientNow,
                   initDue>>

\* time passes; a timer that is due runs before the clock moves on
ClientTick ==
    /\ clientNow < MaxClientTime
    /\ \A t \in timers : t.due # clientNow
    /\ clientNow' = clientNow + 1
    /\ clientLast' = Did("tick")
    /\ UNCHANGED <<clientFrame, awaiting, spawns, lineReader, child, requestId,
                   pendingRequests, written,
                   timers, settled, initDue>>

\* executeSingle's own timer wins Promise.race against a tools/call that is
\* still waiting for its response: executeSingle returns a failure and
\* nobody awaits the request any longer. The timeout is the number the
\* client sent, so it can fire at any time.
ItemTimeout(id) ==
    /\ id \in awaiting
    /\ written[id] = "tools/call"
    /\ awaiting' = awaiting \ { id }
    /\ clientLast' = Did("Execution timeout")
    /\ UNCHANGED <<clientFrame, spawns, lineReader, child, requestId,
                   pendingRequests, written, timers, clientNow, settled,
                   initDue>>

ClientNext ==
    \/ ClientStart
    \/ InitializeTimer
    \/ \E method \in { "tools/list", "tools/call" } : ClientCall(method)
    \/ ChildExit
    \/ ClientStop
    \/ \E id \in ResponseIds, isError \in BOOLEAN : HandleResponse(id, isError)
    \/ \E t \in timers : TimerFires(t)
    \/ \E id \in RequestIds : ItemTimeout(id)
    \/ ClientTick

\* ---------------------------------------------------------------- manager
\* MCPClient.isRunning() of the registered client (no client is ever killed
\* by a request: stop() runs only on a signal)
IsRunning(s) == proc[s] # "null"

\* loadConfig: the servers it registers
LoadedServers == { s \in ConfigServers : Enabled(s) }

\* ------------------------------------------------- clients and their children
\* Which MCPClient instance the manager holds for each server, and which
\* child processes exist. An instance is named by its server and the
\* loadConfig call that created it.
MaxGenerations == 2

Children == { <<s, n>> : s \in LoadedServers, n \in 1 .. MaxGenerations }

\* the children owned by the clients in the manager's map
Owned == { <<s, clientOf[s]>> : s \in DOMAIN clientOf }

ownerFrame ==
    <<rlVars, tier, initialized, clients, proc, tools, req, out, fwd,
      stdoutNoise, lastComplete, inputVars, keyVars, auditVars, libVars,
      clientVars, batchVars, shadowVars, managerAuthEnabled, life, events, signal,
      reported>>

\* case 'initialize', up to the first await inside startAll: loadConfig
\* sets a new MCPClient for every enabled server, and startAll calls start()
\* on every client of the map, which spawns its child
LoadConfigAndStartAll(thrown, deaf) ==
    /\ generation < MaxGenerations
    /\ thrown \subseteq (MaySpawnThrow \cap LoadedServers)
    /\ deaf \subseteq (LoadedServers \ thrown)
    /\ generation' = generation + 1
    /\ clientOf' = [s \in (DOMAIN clientOf) \cup LoadedServers |->
                       IF s \in LoadedServers THEN generation'
                       ELSE clientOf[s]]
    /\ alive' = alive \cup { <<s, generation'>> : s \in LoadedServers \ thrown }
    /\ stubborn' = stubborn \cup { <<s, generation'>> : s \in deaf }
    /\ UNCHANGED <<ownerFrame, signalled>>

\* stopAll(): every client of the map is stopped, which sends its child
\* SIGTERM with process.kill(), and the map is cleared
StopAll ==
    /\ signalled' = signalled \cup (Owned \cap alive)
    /\ clientOf' = << >>
    /\ UNCHANGED <<ownerFrame, alive, stubborn, generation>>

\* a child that handles SIGTERM in the default way exits
TermDelivered(x) ==
    /\ x \in (signalled \cap alive) \ stubborn
    /\ alive' = alive \ { x }
    /\ UNCHANGED <<ownerFrame, clientOf, stubborn, signalled, generation>>

\* a child exits on its own
OwnedChildExit(x) ==
    /\ x \in alive \ signalled
    /\ alive' = alive \ { x }
    /\ stubborn' = stubborn \ { x }
    /\ UNCHANGED <<ownerFrame, clientOf, signalled, generation>>

OwnerNext ==
    \/ \E thrown \in SUBSET LoadedServers, deaf \in SUBSET LoadedServers :
            LoadConfigAndStartAll(thrown, deaf)
    \/ StopAll
    \/ \E x \in Children : TermDelivered(x)
    \/ \E x \in Children : OwnedChildExit(x)

\* ------------------------------------------------------- manager, continued
\* listAllTools(): name and description of every catalog entry
ListAllTools == { t.name : t \in tools }

\* this.tools.set(name, tool)
ToolsSet(ts, t) == { u \in ts : u.name # t.name } \cup { t }

\* aggregateTools' inner loop over one tools/list response
AddTools(ts, server, raws) ==
    LET Add[rs \in SUBSET raws] ==
            IF rs = {} THEN ts
            ELSE LET r == CHOOSE x \in rs : TRUE
                 IN  ToolsSet(Add[rs \ {r}],
                              [name |-> QualifiedName(server, r),
                               description |-> RawDescription(server, r),
                               serverName |-> server, originalName |-> r,
                               inputSchema |-> RawInputSchema(server, r)])
    IN  Add[raws]

\* the fields of an object that JSON.stringify writes: a field whose value
\* is undefined is left out
JsonFields(obj) == { f \in DOMAIN obj : obj[f] # "undefined" }

\* one entry of a tools/list result as the client receives it
Serialized(entry) == [name |-> entry.name, fields |-> JsonFields(entry)]

\* the catalog entries returned whole, as listAllToolsFull() does
ListedEntry_Full(tool) == tool

\* listAllTools() maps every catalog entry to its name and description
ListedEntry(tool) == [name |-> tool.name, description |-> tool.description]

\* index.ts maps allInternalTools to name and description
InternalToolEntries ==
    { [name |-> n, description |-> "text"] : n \in InternalTools }

\* the tools array of a tools/list result
ToolsListEntries ==
    { Serialized(e) : e \in InternalToolEntries }
        \cup { Serialized(ListedEntry(t)) : t \in tools }

\* the part of a name before its first ".", and the part after it
Prefix(name) == SubSeq(name, 1, FirstDot(name) - 1)
Suffix(name) == SubSeq(name, FirstDot(name) + 1, Len(name))

RouteTarget_ServerAsTool(parts) == [backend |-> parts[1], tool |-> parts[1]]

\* the backend executeTool picks and the tool name it sends
RouteTarget(parts) == [backend |-> parts[1], tool |-> parts[2]]

\* executeTool up to the call of client.callTool
ExecuteTool(name) ==
    LET parts == Split(name)
    IN  IF Len(parts) # 2 THEN [outcome |-> "invalid name"]
        ELSE IF RouteTarget(parts).backend \notin clients
             THEN [outcome |-> "not found"]
        ELSE IF ~IsRunning(RouteTarget(parts).backend)
             THEN [outcome |-> "not running"]
        ELSE [outcome |-> "forward",
              backend |-> RouteTarget(parts).backend,
              tool |-> RouteTarget(parts).tool]

\* ------------------------------------------------------ parallel executor
\* the largest number of requests of one execute_parallel call
MaxItems == 2

\* the largest maxConcurrency a caller passes
MaxConcurrency == 2

\* the toolName of the requests: a tool of a running backend, and one of a
\* backend that is not registered
ParItemNames == { << "e", ".", "s" >>, << "x", ".", "s" >> }

\* the `requests` arrays of execute_parallel calls
ParRequests == UNION { [1 .. n -> ParItemNames] : n \in 1 .. MaxItems }

\* --------------------------------------------------------- createBatches
\* executeParallel step by step: createBatches' loop, then one batch after
\* the other. An item is the outcome its executeSingle will have.
MaxBatches == 3

\* the maxConcurrency values a client sends: whatever number it likes
BatchSizes == -1 .. MaxConcurrency
ItemLists == UNION { [1 .. n -> BOOLEAN] : n \in 0 .. MaxItems }

NoBatching ==
    [pc |-> "idle", items |-> << >>, batchSize |-> 1, continueOnError |-> TRUE,
     i |-> 0, batches |-> << >>, at |-> 0, results |-> << >>]

\* Array.prototype.slice(start, end): a negative index counts from the end
SliceIndex(k, len) == IF k < 0 THEN (IF len + k < 0 THEN 0 ELSE len + k)
                      ELSE (IF k > len THEN len ELSE k)
Slice(seq, start, end) ==
    SubSeq(seq, SliceIndex(start, Len(seq)) + 1, SliceIndex(end, Len(seq)))

batchFrame ==
    <<rlVars, tier, initialized, clients, proc, tools, req, out, fwd,
      stdoutNoise, lastComplete, inputVars, keyVars, auditVars, libVars,
      clientVars, ownerVars, shadowVars, managerAuthEnabled, life, events,
      signal, reported>>

\* executeParallel(requests, {maxConcurrency, continueOnError}) up to the
\* first test of createBatches' loop
CallExecuteParallel(items, maxConcurrency, continueOnError) ==
    /\ batching.pc \in { "idle", "returned" }
    /\ batching' = [NoBatching EXCEPT
                       !.pc = "createBatches", !.items = items,
                       !.batchSize = maxConcurrency,
                       !.continueOnError = continueOnError]
    /\ UNCHANGED batchFrame

\* one round of `for (let i = 0; i < items.length; i += batchSize)`, or the
\* end of the loop
CreateBatchesStep ==
    /\ batching.pc = "createBatches"
    /\ IF batching.i < Len(batching.items)
       THEN /\ Len(batching.batches) < MaxBatches
            /\ batching' = [batching EXCEPT
                  !.batches = Append(@, Slice(batching.items, batching.i,
                                              batching.i + batching.batchSize)),
                  !.i = @ + batching.batchSize]
       ELSE batching' = [batching EXCEPT !.pc = "batches", !.at = 1]
    /\ UNCHANGED batchFrame

\* one round of `for (const batch of batches)`: Promise.all of the batch
\* settles and its results are pushed; or the loop ends, by running out of
\* batches or by the break, and the summary is returned
ExecuteBatchStep ==
    /\ batching.pc = "batches"
    /\ IF batching.at > Len(batching.batches)
       THEN batching' = [batching EXCEPT !.pc = "returned"]
       ELSE LET batch == batching.batches[batching.at]
                stop == /\ ~batching.continueOnError
                        /\ \E k \in 1 .. Len(batch) : ~batch[k]
            IN  batching' = [batching EXCEPT
                    !.results = @ \o batch,
                    !.at = @ + 1,
                    !.pc = IF stop THEN "returned" ELSE @]
    /\ UNCHANGED batchFrame

BatchNext ==
    \/ \E items \in ItemLists, maxConcurrency \in BatchSizes,
          continueOnError \in BOOLEAN :
            CallExecuteParallel(items, maxConcurrency, continueOnError)
    \/ CreateBatchesStep
    \/ ExecuteBatchStep

\* ------------------------------------------------- execute_parallel
\* one executeParallel run: its options, the first index of the batch being
\* awaited (0: none), the state of every executeSingle, and `results`
NoPar ==
    [items |-> << >>, maxConcurrency |-> 0, continueOnError |-> TRUE,
     batch |-> 0, status |-> << >>, results |-> << >>, finished |-> FALSE]

\* batch.map(request => this.executeSingle(...)): every request of the batch
\* from index k on calls manager.executeTool; a call that executeTool accepts
\* is written to its backend, any other is a failed result at once
RECURSIVE StartItems(_, _, _, _)
StartItems(par, k, last, fw) ==
    IF k > last THEN [par |-> par, fwd |-> fw]
    ELSE LET x == ExecuteTool(par.items[k])
         IN  IF x.outcome = "forward"
             THEN StartItems([par EXCEPT !.status[k] = "pending"], k + 1, last,
                             Append(fw, [backend |-> x.backend, tool |-> x.tool]))
             ELSE StartItems([par EXCEPT !.status[k] = "failed"], k + 1, last, fw)

\* results.push(...batchResults)
RECURSIVE PushResults(_, _, _)
PushResults(par, k, last) ==
    IF k > last THEN par
    ELSE PushResults(
             [par EXCEPT !.results =
                 Append(@, [item |-> k, success |-> par.status[k] = "ok"])],
             k + 1, last)

\* the loop `for (const batch of batches)` from the batch at `first` on, up to
\* the next await that does not settle at once
RECURSIVE RunBatches(_, _, _)
RunBatches(par, first, fw) ==
    IF first > Len(par.items)
    THEN [par |-> [par EXCEPT !.batch = 0, !.finished = TRUE], fwd |-> fw]
    ELSE LET last == Min(first + par.maxConcurrency - 1, Len(par.items))
             st == StartItems(par, first, last, fw)
         IN  IF \E k \in first .. last : st.par.status[k] = "pending"
             THEN [par |-> [st.par EXCEPT !.batch = first], fwd |-> st.fwd]
             ELSE LET pushed == PushResults(st.par, first, last)
                  IN  IF ~par.continueOnError
                      THEN [par |-> [pushed EXCEPT !.batch = 0, !.finished = TRUE],
                            fwd |-> st.fwd]
                      ELSE RunBatches(pushed, last + 1, st.fwd)

\* Promise.all of the awaited batch has settled: push its results, stop at a
\* failure unless continueOnError, else go on with the next batch
BatchSettled(par, fw) ==
    LET first == par.batch
        last == Min(first + par.maxConcurrency - 1, Len(par.items))
        pushed == PushResults(par, first, last)
    IN  IF ~par.continueOnError /\ \E k \in first .. last : par.status[k] = "failed"
        THEN [par |-> [pushed EXCEPT !.batch = 0, !.finished = TRUE], fwd |-> fw]
        ELSE RunBatches(pushed, last + 1, fw)

\* ------------------------------------------------------------- dispatcher
ReqIds == 1 .. MaxReq

\* TieredRateLimiter.checkLimit(currentAuthContext.apiKeyId, 'default')
DispatchId == "default:anonymous"

NewReq ==
    [method |-> "none", pc |-> "unread", name |-> <<>>, err |-> NoError,
     starts |-> [s \in ConfigServers |-> "none"], aggAt |-> 0,
     noInit |-> FALSE, rl |-> "none", listed |-> {}, partial |-> FALSE,
     live |-> FALSE, perm |-> << >>, par |-> NoPar, entries |-> {}]

DispInit ==
    /\ tier \in TierConfigs
    /\ initialized = FALSE
    /\ clients = {}
    /\ proc = [s \in ConfigServers |-> "null"]
    /\ tools = {}
    /\ req = [i \in ReqIds |-> NewReq]
    /\ out = [i \in ReqIds |-> <<>>]
    /\ fwd = [i \in ReqIds |-> <<>>]
    /\ stdoutNoise = {}
    /\ lastComplete = {}
    /\ authEnabled \in BOOLEAN
    /\ callArgs \in [ReqIds -> CallArgSets]
    /\ apiKeys = << >>
    /\ keysFile \in { NoFile, EmptyKeysFile }
    /\ issued = 0
    /\ authLast = NoCall
    /\ eventCounter = 0
    /\ logFile = << >>
    /\ accepted = << >>
    /\ lastCall = NoCall
    /\ child = "null"
    /\ requestId = 0
    /\ pendingRequests = {}
    /\ written = << >>
    /\ timers = {}
    /\ clientNow = 0
    /\ settled = [id \in RequestIds |-> << >>]
    /\ initDue = FALSE
    /\ clientLast = Did("none")
    /\ spawns = 0
    /\ lineReader = FALSE
    /\ awaiting = {}
    /\ clientOf = << >>
    /\ alive = {}
    /\ stubborn = {}
    /\ signalled = {}
    /\ generation = 0
    /\ batching = NoBatching
    /\ uncleaned = [id \in Ids |-> NoBucket]
    /\ uncleanedLast = NoCall
    /\ managerAuthEnabled = FALSE
    /\ life = "running"
    /\ events = EmptyBag
    /\ signal = "none"
    /\ reported = << >>

\* AUTH_ENABLED is not set: the default deployment
Init ==
    /\ RLInit /\ DispInit /\ ~authEnabled
    /\ callArgs = [i \in ReqIds |-> NoArgs]
    /\ keysFile = NoFile

\* the deployment with AUTH_ENABLED=true
InitAuth ==
    /\ RLInit /\ DispInit /\ authEnabled
    /\ tier = [maxTokens |-> 1, refillRate |-> 1]
    /\ callArgs = [i \in ReqIds |-> NoArgs]

\* the process has not exited
Running == life # "exited"

\* readline delivers the lines in order; each handler starts when its line
\* is read, while earlier handlers may still be awaiting
CanRead(i) ==
    /\ life = "running"
    /\ req[i].pc = "unread"
    /\ \A j \in ReqIds : j < i => req[j].pc # "unread"

\* an initialize request has been answered with a result
InitSucceeded ==
    \E j \in ReqIds :
        /\ req[j].method = "initialize"
        /\ \E k \in 1 .. Len(out[j]) : out[j][k].kind = "result"

NotInitialized_Dropped == FALSE

\* the test `if (!initialized)` of tools/list and tools/call
NotInitialized == ~initialized

ToolsListReplies_NoReturn ==
    IF NotInitialized THEN << BareError(-32002), ResultResponse >>
    ELSE << ResultResponse >>

\* what case 'tools/list' writes to stdout
ToolsListReplies ==
    IF NotInitialized THEN << BareError(-32002) >> ELSE << ResultResponse >>

\* the client of aggregateTools' loop after position k that has a process
\* (listTools on a client without one rejects at once and is skipped)
NextAgg(k, cl, pr) ==
    LET later == { j \in (k + 1) .. Len(ServerOrder) :
                      ServerOrder[j] \in cl /\ pr[ServerOrder[j]] # "null" }
    IN  IF later = {} THEN 0
        ELSE CHOOSE j \in later : \A m \in later : j <= m

\* case 'initialize', up to `await readFile`
ReadInitialize(i) ==
    /\ Running
    /\ CanRead(i)
    /\ req' = [req EXCEPT ![i].method = "initialize", ![i].pc = "readFile",
                          ![i].noInit = ~InitSucceeded]
    /\ UNCHANGED <<rlVars, tier, initialized, clients, proc, tools, out, fwd,
                   stdoutNoise, lastComplete>>
    /\ UNCHANGED <<inputVars, keyVars, auditVars, sideVars, managerAuthEnabled,
                   life, signal, reported>>
    /\ UNCHANGED events

\* readFile settles: loadConfig registers a new client for each enabled
\* server and startAll spawns every registered client
LoadConfigDone(i, ok, thrown) ==
    /\ Running
    /\ req[i].pc = "readFile"
    /\ IF ~ok
       THEN /\ req' = [req EXCEPT ![i].pc = "initFailAudit",
                                  ![i].err = ConfigurationError]
            /\ events' = Push(events, SystemEvent("failure"))
            /\ UNCHANGED <<clients, proc, stdoutNoise>>
       ELSE /\ thrown \subseteq (MaySpawnThrow \cap (clients \cup LoadedServers))
            /\ clients' = clients \cup LoadedServers
            /\ proc' = [s \in ConfigServers |->
                          IF s \in clients'
                          THEN (IF s \in thrown THEN "null" ELSE "spawned")
                          ELSE proc[s]]
            /\ stdoutNoise' = stdoutNoise \cup {"console.log"}
            /\ req' = [req EXCEPT
                  ![i].starts = [s \in ConfigServers |->
                                    IF s \notin clients' THEN "none"
                                    ELSE IF s \in thrown THEN "failed"
                                    ELSE "pending"],
                  ![i].pc = IF thrown # {} THEN "initFailAudit" ELSE "starting",
                  ![i].err = IF thrown # {} THEN ConfigurationError ELSE NoError]
            /\ events' = IF thrown # {} THEN Push(events, SystemEvent("failure"))
                         ELSE events
    /\ UNCHANGED <<rlVars, tier, initialized, tools, out, fwd, lastComplete>>
    /\ UNCHANGED <<inputVars, keyVars, auditVars, sideVars, managerAuthEnabled,
                   life, signal, reported>>

\* aggregateTools has walked every client
AggregateDone(i, ts, noise) ==
    /\ tools' = ts
    /\ lastComplete' = ts
    /\ stdoutNoise' = stdoutNoise \cup noise \cup {"console.log"}
    /\ req' = [req EXCEPT ![i].pc = IF authEnabled THEN "authInit"
                                     ELSE "initOkAudit",
                          ![i].aggAt = 0]
    /\ events' = IF authEnabled THEN events
                 ELSE Push(events, SystemEvent("success"))

\* one client.start() of startAll settles
StartResult(i, s, ok) ==
    /\ Running
    /\ req[i].pc = "starting"
    /\ req[i].starts[s] = "pending"
    /\ IF ~ok
       THEN /\ req' = [req EXCEPT ![i].starts[s] = "failed",
                                  ![i].pc = "initFailAudit",
                                  ![i].err = ConfigurationError]
            /\ events' = Push(events, SystemEvent("failure"))
            /\ UNCHANGED <<tools, lastComplete, stdoutNoise>>
       ELSE IF \E u \in ConfigServers : u # s /\ req[i].starts[u] = "pending"
       THEN /\ req' = [req EXCEPT ![i].starts[s] = "ok"]
            /\ stdoutNoise' = stdoutNoise \cup {"console.log"}
            /\ UNCHANGED <<tools, lastComplete, events>>
       ELSE \* Promise.all resolves; aggregateTools clears the catalog
            IF NextAgg(0, clients, proc) = 0
            THEN AggregateDone(i, {}, {"console.log"})
            ELSE /\ tools' = {}
                 /\ req' = [req EXCEPT ![i].starts[s] = "ok", ![i].pc = "agg",
                                       ![i].aggAt = NextAgg(0, clients, proc)]
                 /\ stdoutNoise' = stdoutNoise \cup {"console.log"}
                 /\ UNCHANGED <<lastComplete, events>>
    /\ UNCHANGED <<rlVars, tier, initialized, clients, proc, out, fwd>>
    /\ UNCHANGED <<inputVars, keyVars, auditVars, sideVars, managerAuthEnabled,
                   life, signal, reported>>

\* the tools/list response awaited by aggregateTools arrives, or fails
ListToolsResult(i, ok) ==
    /\ Running
    /\ req[i].pc = "agg"
    /\ LET s == ServerOrder[req[i].aggAt]
           ts == IF ok THEN AddTools(tools, s, RawTools(s)) ELSE tools
           noise == IF ok THEN {"console.log"} ELSE {}
           next == NextAgg(req[i].aggAt, clients, proc)
       IN  IF next = 0
           THEN AggregateDone(i, ts, noise)
           ELSE /\ tools' = ts
                /\ req' = [req EXCEPT ![i].aggAt = next]
                /\ stdoutNoise' = stdoutNoise \cup noise
                /\ UNCHANGED <<lastComplete, events>>
    /\ UNCHANGED <<rlVars, tier, initialized, clients, proc, out, fwd>>
    /\ UNCHANGED <<inputVars, keyVars, auditVars, sideVars, managerAuthEnabled,
                   life, signal, reported>>

\* initializeAuthManager settles: it reads the keys file when there is one,
\* and fails when that file does not parse;
\* index.ts then enables auth on the manager it holds and logs the success
AuthManagerInitialized(i, ok) ==
    /\ Running
    /\ req[i].pc = "authInit"
    /\ ok \/ keysFile.exists
    /\ IF ok
       THEN /\ managerAuthEnabled' = TRUE
            /\ events' = Push(events, SystemEvent("success"))
            /\ req' = [req EXCEPT ![i].pc = "initOkAudit"]
       ELSE /\ events' = Push(events, SystemEvent("failure"))
            /\ req' = [req EXCEPT ![i].pc = "initFailAudit",
                                  ![i].err = ConfigurationError]
            /\ UNCHANGED managerAuthEnabled
    /\ UNCHANGED <<rlVars, tier, initialized, clients, proc, tools, out, fwd,
                   stdoutNoise, lastComplete, inputVars, keyVars, auditVars,
                   sideVars, life, signal,
                   reported>>

\* the audit write of a successful initialize is done: the event is printed
\* with console.log, the flag is set and the result is sent
InitializeSucceeds(i) ==
    /\ Running
    /\ req[i].pc = "initOkAudit"
    /\ initialized' = TRUE
    /\ stdoutNoise' = stdoutNoise \cup {"audit console.log"}
    /\ out' = [out EXCEPT ![i] = Append(@, ResultResponse)]
    /\ req' = [req EXCEPT ![i].pc = "done"]
    /\ UNCHANGED <<rlVars, tier, clients, proc, tools, fwd, lastComplete>>
    /\ UNCHANGED <<inputVars, keyVars, auditVars, sideVars, managerAuthEnabled,
                   life, signal, reported>>
    /\ UNCHANGED events

\* the audit write of a failed initialize is done: ConfigurationError is
\* thrown to handleRequest's catch
InitializeFails(i) ==
    /\ Running
    /\ req[i].pc = "initFailAudit"
    /\ out' = [out EXCEPT ![i] = Append(@, ErrorResponse(req[i].err))]
    /\ req' = [req EXCEPT ![i].pc = "done"]
    /\ UNCHANGED <<rlVars, tier, initialized, clients, proc, tools, fwd,
                   stdoutNoise, lastComplete>>
    /\ UNCHANGED <<inputVars, keyVars, auditVars, sideVars, managerAuthEnabled,
                   life, signal, reported>>
    /\ UNCHANGED events

\* case 'tools/list'
ReadToolsList(i) ==
    /\ Running
    /\ CanRead(i)
    /\ out' = [out EXCEPT ![i] = @ \o ToolsListReplies]
    /\ req' = [req EXCEPT
          ![i].method = "tools/list", ![i].pc = "done",
          ![i].noInit = ~InitSucceeded,
          ![i].listed = IF NotInitialized THEN {}
                        ELSE InternalTools \cup ListAllTools,
          ![i].entries = IF NotInitialized THEN {} ELSE ToolsListEntries,
          ![i].partial = (~NotInitialized /\ tools # lastComplete)]
    /\ UNCHANGED <<rlVars, tier, initialized, clients, proc, tools, fwd,
                   stdoutNoise, lastComplete>>
    /\ UNCHANGED <<inputVars, keyVars, auditVars, sideVars, managerAuthEnabled,
                   life, signal, reported>>
    /\ UNCHANGED events

\* logRateLimit formats resetAt with new Date(resetAt).toISOString(), which
\* throws on the Infinity or NaN a zero refillRate yields
LogRateLimitThrows(bucket) == bucket.refillRate = 0

\* case 'tools/call', up to its first await
ReadToolsCall(i, n) ==
    /\ Running
    /\ CanRead(i)
    /\ n # ExecuteParallelName
    /\ LET r == CheckLimit(buckets, DispatchId, tier, 1, now)
           x == ExecuteTool(n)
           base == [req[i] EXCEPT
                      !.method = "tools/call", !.name = n,
                      !.noInit = ~InitSucceeded,
                      !.live = /\ FirstDot(n) > 0
                               /\ Prefix(n) \in clients
                               /\ IsRunning(Prefix(n))]
           checked == [base EXCEPT
                         !.rl = "allowed",
                         !.perm = IF authEnabled THEN ToolPermission(n)
                                  ELSE << >>]
           failure == ToolExecutionEvent(n, callArgs[i], "failure")
       IN  IF NotInitialized
           THEN /\ out' = [out EXCEPT ![i] = Append(@, BareError(-32002))]
                /\ req' = [req EXCEPT ![i] = [base EXCEPT !.pc = "done"]]
                /\ UNCHANGED <<buckets, fwd, events>>
           ELSE IF n = <<>>
           THEN /\ out' = [out EXCEPT ![i] = Append(@, ErrorResponse(ValidationError))]
                /\ req' = [req EXCEPT ![i] = [base EXCEPT !.pc = "done"]]
                /\ UNCHANGED <<buckets, fwd, events>>
           ELSE IF ~r.allowed
           THEN /\ buckets' = [buckets EXCEPT ![DispatchId] = r.bucket]
                /\ req' = [req EXCEPT ![i] =
                      [base EXCEPT !.rl = "denied", !.err = PlainError,
                                   !.pc = IF LogRateLimitThrows(r.bucket)
                                          THEN "failAudit" ELSE "rlAudit"]]
                /\ events' = IF LogRateLimitThrows(r.bucket)
                             THEN Push(events, failure)
                             ELSE Push(events, RateLimitEvent)
                /\ UNCHANGED <<out, fwd>>
           ELSE IF authEnabled
                   /\ ~HasPermission(CurrentAuthContext, ToolPermission(n))
           THEN /\ buckets' = [buckets EXCEPT ![DispatchId] = r.bucket]
                /\ req' = [req EXCEPT ![i] =
                      [checked EXCEPT !.err = AuthorizationError,
                                      !.pc = "failAudit"]]
                /\ events' = Push(events, failure)
                /\ UNCHANGED <<out, fwd>>
           ELSE IF n \in InternalTools
           THEN /\ buckets' = [buckets EXCEPT ![DispatchId] = r.bucket]
                /\ out' = [out EXCEPT ![i] = Append(@, ResultResponse)]
                /\ req' = [req EXCEPT ![i] = [checked EXCEPT !.pc = "okAudit"]]
                /\ events' = Push(events, ToolExecutionEvent(n, callArgs[i], "success"))
                /\ UNCHANGED fwd
           ELSE IF x.outcome = "forward"
           THEN /\ buckets' = [buckets EXCEPT ![DispatchId] = r.bucket]
                /\ fwd' = [fwd EXCEPT ![i] =
                      Append(@, [backend |-> x.backend, tool |-> x.tool])]
                /\ req' = [req EXCEPT ![i] = [checked EXCEPT !.pc = "awaitBackend"]]
                /\ UNCHANGED <<out, events>>
           ELSE /\ buckets' = [buckets EXCEPT ![DispatchId] = r.bucket]
                /\ req' = [req EXCEPT ![i] =
                      [checked EXCEPT !.err = PlainError, !.pc = "failAudit"]]
                /\ events' = Push(events, failure)
                /\ UNCHANGED <<out, fwd>>
    /\ UNCHANGED <<now, rlLast, tier, initialized, clients, proc, tools,
                   stdoutNoise, lastComplete>>
    /\ UNCHANGED <<inputVars, keyVars, auditVars, sideVars, managerAuthEnabled,
                   life, signal, reported>>

\* case 'tools/call' with name execute_parallel, up to its first await that
\* does not settle at once
ReadExecuteParallel(i, items, maxConcurrency, continueOnError) ==
    /\ Running
    /\ CanRead(i)
    /\ LET n == ExecuteParallelName
           r == CheckLimit(buckets, DispatchId, tier, 1, now)
           base == [req[i] EXCEPT
                      !.method = "tools/call", !.name = n,
                      !.noInit = ~InitSucceeded]
           checked == [base EXCEPT
                         !.rl = "allowed",
                         !.perm = IF authEnabled THEN ToolPermission(n)
                                  ELSE << >>]
           failure == ToolExecutionEvent(n, NoArgs, "failure")
           par0 == [NoPar EXCEPT
                      !.items = items, !.maxConcurrency = maxConcurrency,
                      !.continueOnError = continueOnError,
                      !.status = [k \in 1 .. Len(items) |-> "none"]]
           run == RunBatches(par0, 1, fwd[i])
       IN  IF NotInitialized
           THEN /\ out' = [out EXCEPT ![i] = Append(@, BareError(-32002))]
                /\ req' = [req EXCEPT ![i] = [base EXCEPT !.pc = "done"]]
                /\ UNCHANGED <<buckets, fwd, events>>
           ELSE IF ~r.allowed
           THEN /\ buckets' = [buckets EXCEPT ![DispatchId] = r.bucket]
                /\ req' = [req EXCEPT ![i] =
                      [base EXCEPT !.rl = "denied", !.err = PlainError,
                                   !.pc = IF LogRateLimitThrows(r.bucket)
                                          THEN "failAudit" ELSE "rlAudit"]]
                /\ events' = IF LogRateLimitThrows(r.bucket)
                             THEN Push(events, failure)
                             ELSE Push(events, RateLimitEvent)
                /\ UNCHANGED <<out, fwd>>
           ELSE IF authEnabled
                   /\ ~HasPermission(CurrentAuthContext, ToolPermission(n))
           THEN /\ buckets' = [buckets EXCEPT ![DispatchId] = r.bucket]
                /\ req' = [req EXCEPT ![i] =
                      [checked EXCEPT !.err = AuthorizationError,
                                      !.pc = "failAudit"]]
                /\ events' = Push(events, failure)
                /\ UNCHANGED <<out, fwd>>
           ELSE IF run.par.finished
           THEN /\ buckets' = [buckets EXCEPT ![DispatchId] = r.bucket]
                /\ fwd' = [fwd EXCEPT ![i] = run.fwd]
                /\ out' = [out EXCEPT ![i] = Append(@, ResultResponse)]
                /\ req' = [req EXCEPT ![i] =
                      [checked EXCEPT !.par = run.par, !.pc = "okAudit"]]
                /\ events' = Push(events, ToolExecutionEvent(n, NoArgs, "success"))
           ELSE /\ buckets' = [buckets EXCEPT ![DispatchId] = r.bucket]
                /\ fwd' = [fwd EXCEPT ![i] = run.fwd]
                /\ req' = [req EXCEPT ![i] =
                      [checked EXCEPT !.par = run.par, !.pc = "awaitBatch"]]
                /\ UNCHANGED <<out, events>>
    /\ UNCHANGED <<now, rlLast, tier, initialized, clients, proc, tools,
                   stdoutNoise, lastComplete>>
    /\ UNCHANGED <<inputVars, keyVars, auditVars, sideVars, managerAuthEnabled,
                   life, signal, reported>>

\* one executeSingle of the awaited batch settles: its backend answers, or
\* answers with an error, or its timeout fires
ParItemReply(i, k, ok) ==
    /\ Running
    /\ req[i].pc = "awaitBatch"
    /\ k \in 1 .. Len(req[i].par.items)
    /\ req[i].par.status[k] = "pending"
    /\ LET par1 == [req[i].par EXCEPT !.status[k] = IF ok THEN "ok" ELSE "failed"]
           first == par1.batch
           last == Min(first + par1.maxConcurrency - 1, Len(par1.items))
           run == BatchSettled(par1, fwd[i])
       IN  IF \E j \in first .. last : par1.status[j] = "pending"
           THEN /\ req' = [req EXCEPT ![i].par = par1]
                /\ UNCHANGED <<fwd, out, events>>
           ELSE IF run.par.finished
           THEN /\ fwd' = [fwd EXCEPT ![i] = run.fwd]
                /\ out' = [out EXCEPT ![i] = Append(@, ResultResponse)]
                /\ req' = [req EXCEPT ![i].par = run.par, ![i].pc = "okAudit"]
                /\ events' = Push(events,
                                  ToolExecutionEvent(req[i].name, NoArgs, "success"))
           ELSE /\ fwd' = [fwd EXCEPT ![i] = run.fwd]
                /\ req' = [req EXCEPT ![i].par = run.par]
                /\ UNCHANGED <<out, events>>
    /\ UNCHANGED <<rlVars, tier, initialized, clients, proc, tools,
                   stdoutNoise, lastComplete>>
    /\ UNCHANGED <<inputVars, keyVars, auditVars, sideVars, managerAuthEnabled,
                   life, signal, reported>>

\* the backend answers the forwarded tools/call, or the 30 s timer fires
BackendReply(i, outcome) ==
    /\ Running
    /\ req[i].pc = "awaitBackend"
    /\ IF outcome = "result"
       THEN /\ out' = [out EXCEPT ![i] = Append(@, ResultResponse)]
            /\ req' = [req EXCEPT ![i].pc = "okAudit"]
            /\ events' = Push(events,
                               ToolExecutionEvent(req[i].name, callArgs[i], "success"))
       ELSE /\ req' = [req EXCEPT ![i].pc = "failAudit", ![i].err = PlainError]
            /\ events' = Push(events,
                               ToolExecutionEvent(req[i].name, callArgs[i], "failure"))
            /\ UNCHANGED out
    /\ UNCHANGED <<rlVars, tier, initialized, clients, proc, tools, fwd,
                   stdoutNoise, lastComplete>>
    /\ UNCHANGED <<inputVars, keyVars, auditVars, sideVars, managerAuthEnabled,
                   life, signal, reported>>

\* logRateLimit's write is done: the 'Rate limit exceeded' Error is thrown
\* and caught by the failure branch
RateLimitAudited(i) ==
    /\ Running
    /\ req[i].pc = "rlAudit"
    /\ req' = [req EXCEPT ![i].pc = "failAudit"]
    /\ events' = Push(events, ToolExecutionEvent(req[i].name, callArgs[i], "failure"))
    /\ UNCHANGED <<rlVars, tier, initialized, clients, proc, tools, out, fwd,
                   stdoutNoise, lastComplete>>
    /\ UNCHANGED <<inputVars, keyVars, auditVars, sideVars, managerAuthEnabled,
                   life, signal, reported>>

\* logToolExecution(..., 'success') is done; the event is printed with
\* console.log
SuccessAudited(i) ==
    /\ Running
    /\ req[i].pc = "okAudit"
    /\ stdoutNoise' = stdoutNoise \cup {"audit console.log"}
    /\ req' = [req EXCEPT ![i].pc = "done"]
    /\ UNCHANGED <<rlVars, tier, initialized, clients, proc, tools, out, fwd,
                   lastComplete>>
    /\ UNCHANGED <<inputVars, keyVars, auditVars, sideVars, managerAuthEnabled,
                   life, signal, reported>>
    /\ UNCHANGED events

\* logToolExecution(..., 'failure') is done; the error is rethrown to
\* handleRequest's catch
FailureAudited(i) ==
    /\ Running
    /\ req[i].pc = "failAudit"
    /\ out' = [out EXCEPT ![i] = Append(@, ErrorResponse(req[i].err))]
    /\ req' = [req EXCEPT ![i].pc = "done"]
    /\ UNCHANGED <<rlVars, tier, initialized, clients, proc, tools, fwd,
                   stdoutNoise, lastComplete>>
    /\ UNCHANGED <<inputVars, keyVars, auditVars, sideVars, managerAuthEnabled,
                   life, signal, reported>>
    /\ UNCHANGED events

\* a ping that also empties the catalog
ReadPing_ClearsCatalog(i) ==
    /\ Running
    /\ CanRead(i)
    /\ out' = [out EXCEPT ![i] = Append(@, ResultResponse)]
    /\ req' = [req EXCEPT ![i].method = "ping", ![i].pc = "done",
                          ![i].noInit = ~InitSucceeded]
    /\ tools' = {}
    /\ UNCHANGED <<rlVars, tier, initialized, clients, proc, fwd,
                   stdoutNoise, lastComplete>>
    /\ UNCHANGED <<inputVars, keyVars, auditVars, sideVars, managerAuthEnabled,
                   life, signal, reported>>
    /\ UNCHANGED events

\* case 'ping'
ReadPing(i) ==
    /\ Running
    /\ CanRead(i)
    /\ out' = [out EXCEPT ![i] = Append(@, ResultResponse)]
    /\ req' = [req EXCEPT ![i].method = "ping", ![i].pc = "done",
                          ![i].noInit = ~InitSucceeded]
    /\ UNCHANGED <<rlVars, tier, initialized, clients, proc, tools, fwd,
                   stdoutNoise, lastComplete>>
    /\ UNCHANGED <<inputVars, keyVars, auditVars, sideVars, managerAuthEnabled,
                   life, signal, reported>>
    /\ UNCHANGED events

\* default: any other method
ReadUnknown(i) ==
    /\ Running
    /\ CanRead(i)
    /\ out' = [out EXCEPT ![i] = Append(@, BareError(-32601))]
    /\ req' = [req EXCEPT ![i].method = "other", ![i].pc = "done",
                          ![i].noInit = ~InitSucceeded]
    /\ UNCHANGED <<rlVars, tier, initialized, clients, proc, tools, fwd,
                   stdoutNoise, lastComplete>>
    /\ UNCHANGED <<inputVars, keyVars, auditVars, sideVars, managerAuthEnabled,
                   life, signal, reported>>
    /\ UNCHANGED events

\* the continuation of handler i that the event loop runs next
HandlerStep(i) ==
    \/ \E ok \in BOOLEAN, thrown \in SUBSET MaySpawnThrow :
           LoadConfigDone(i, ok, thrown)
    \/ \E s \in ConfigServers, ok \in BOOLEAN : StartResult(i, s, ok)
    \/ \E ok \in BOOLEAN : ListToolsResult(i, ok)
    \/ InitializeSucceeds(i)
    \/ InitializeFails(i)
    \/ \E outcome \in {"result", "error", "timeout"} : BackendReply(i, outcome)
    \/ RateLimitAudited(i)
    \/ SuccessAudited(i)
    \/ FailureAudited(i)

Next ==
    \/ \E i \in ReqIds : ReadInitialize(i)
    \/ \E i \in ReqIds : ReadToolsList(i)
    \/ \E i \in ReqIds, n \in CallNames : ReadToolsCall(i, n)
    \/ \E i \in ReqIds : ReadPing(i)
    \/ \E i \in ReqIds : ReadUnknown(i)
    \/ \E i \in ReqIds : HandlerStep(i)

Spec == Init /\ [][Next]_vars

\* the requests of the deployment with AUTH_ENABLED=true, execute_parallel
\* calls among them
AuthNext ==
    \/ Next
    \/ \E i \in ReqIds, ok \in BOOLEAN : AuthManagerInitialized(i, ok)
    \/ \E i \in ReqIds, items \in ParRequests,
          maxConcurrency \in 1 .. MaxConcurrency, continueOnError \in BOOLEAN :
            ReadExecuteParallel(i, items, maxConcurrency, continueOnError)
    \/ \E i \in ReqIds, k \in 1 .. MaxItems, ok \in BOOLEAN : ParItemReply(i, k, ok)

AuthSpec == InitAuth /\ [][AuthNext]_vars

\* tier 'default' with one token and no refill
InitRL == Init /\ tier = [maxTokens |-> 1, refillRate |-> 0]

\* an AuthManager alone, driven by arbitrary callers; the rest idles
KeySpec == InitRL /\ [][KeyNext]_vars

\* the audit logger's buffer alone, driven by arbitrary callers
BufferSpec == InitRL /\ [][BufferNext]_vars

\* MCPClient.start's spawn alone, over any environment and configuration
EnvSpec == InitRL /\ [][EnvNext]_vars

\* a ToolRegistry alone, driven by arbitrary callers
RegistrySpec == InitRL /\ [][RegistryNext]_vars

\* executeParallel's batching, where the event loop keeps running its code
BatchSpec ==
    /\ InitRL /\ [][BatchNext]_vars
    /\ WF_vars(CreateBatchesStep) /\ WF_vars(ExecuteBatchStep)

\* the manager's clients and the children they spawned
OwnerSpec == InitRL /\ [][OwnerNext]_vars

\* the same, where the operating system delivers every signal
OwnerFairSpec ==
    /\ OwnerSpec
    /\ \A x \in Children : WF_vars(TermDelivered(x))

\* one MCPClient, its child and its timers
ClientSpec == InitRL /\ [][ClientNext]_vars

\* the same, where the event loop keeps running: time passes and a timer
\* that is due fires
ClientFairSpec ==
    /\ ClientSpec
    /\ WF_vars(ClientTick)
    /\ WF_vars(\E t \in timers : TimerFires(t))

\* tier 'default' with one token, refilled at one token per second
InitLife == Init /\ tier = [maxTokens |-> 1, refillRate |-> 1]

\* -------------------------------------------------------------- lifecycle
Signals == { "SIGINT", "SIGTERM" }

\* the details of the shutdown event
ShutdownEvent(sig) ==
    AuditEvent("system", "info", "shutdown", << >>, "success", << >>, sig)

\* stdin reaches EOF: readline emits 'close', which has no listener; no more
\* lines arrive, the handlers in progress go on
StdinClose ==
    /\ life = "running"
    /\ life' = "eof"
    /\ UNCHANGED <<rlVars, tier, initialized, clients, proc, tools, req, out,
                   fwd, stdoutNoise, lastComplete, inputVars, keyVars, auditVars, sideVars,
                   managerAuthEnabled, events, signal, reported>>

\* process.on('SIGINT' | 'SIGTERM'), up to its first await: the shutdown
\* event is recorded
SignalReceived(sig) ==
    /\ Running
    /\ signal = "none"
    /\ signal' = sig
    /\ events' = Push(events, ShutdownEvent(sig))
    /\ UNCHANGED <<rlVars, tier, initialized, clients, proc, tools, req, out,
                   fwd, stdoutNoise, lastComplete, inputVars, keyVars, auditVars, sideVars,
                   managerAuthEnabled, life, reported>>

\* the rest of the signal handler: stopAll kills every client and clears
\* clients and tools, the rate limiter's timer is stopped, process.exit(0)
ShutdownCompletes ==
    /\ Running
    /\ signal # "none"
    /\ proc' = [s \in ConfigServers |-> "null"]
    /\ clients' = {}
    /\ tools' = {}
    /\ stdoutNoise' = stdoutNoise \cup {"audit console.log", "console.log"}
    /\ life' = "exited"
    /\ UNCHANGED <<rlVars, tier, initialized, req, out, fwd, lastComplete,
                   inputVars, keyVars, auditVars, sideVars, managerAuthEnabled,
                   events, signal, reported>>

LifeNext ==
    \/ Next
    \/ StdinClose
    \/ \E sig \in Signals : SignalReceived(sig)
    \/ ShutdownCompletes

\* the process with its environment: the client may close stdin and the
\* operator may send a signal, neither is bound to happen; the event loop
\* runs every continuation that is ready
LifeSpec ==
    /\ InitLife
    /\ [][LifeNext]_vars
    /\ \A i \in ReqIds : WF_vars(HandlerStep(i))
    /\ WF_vars(ShutdownCompletes)

\* ---------------------------------------------------------------- catalog
\* the server names a configuration file may give (any JSON key is taken)
CatalogServers == { <<"e">>, <<"e", Dot, "s">>, <<"o">> }

\* the tool names a backend may report (any string is taken)
CatalogToolNames == { <<"s">>, <<"t">>, <<"s", Dot, "t">> }

\* loadConfig on a file that configures these servers, all enabled
CatalogLoadConfig(servers) ==
    /\ clients = {}
    /\ servers # {}
    /\ clients' = servers
    /\ UNCHANGED <<rlVars, tier, initialized, proc, tools, req, out, fwd,
                   stdoutNoise, lastComplete, inputVars, keyVars, auditVars,
                   sideVars, managerAuthEnabled,
                   life, events, signal, reported>>

\* aggregateTools begins: this.tools.clear()
CatalogClear ==
    /\ clients # {}
    /\ DOMAIN reported = clients
    /\ tools' = {}
    /\ reported' = << >>
    /\ UNCHANGED <<rlVars, tier, initialized, clients, proc, req, out, fwd,
                   stdoutNoise, lastComplete, inputVars, keyVars, auditVars,
                   sideVars, managerAuthEnabled,
                   life, events, signal>>

\* one round of aggregateTools' loop: client s answers tools/list with the
\* tools raws, and each is stored under its qualified name
CatalogListTools(s, raws) ==
    /\ s \in clients
    /\ s \notin DOMAIN reported
    /\ tools' = AddTools(tools, s, raws)
    /\ reported' = reported @@ (s :> raws)
    /\ UNCHANGED <<rlVars, tier, initialized, clients, proc, req, out, fwd,
                   stdoutNoise, lastComplete, inputVars, keyVars, auditVars,
                   sideVars, managerAuthEnabled,
                   life, events, signal>>

CatalogNext ==
    \/ \E servers \in SUBSET CatalogServers : CatalogLoadConfig(servers)
    \/ CatalogClear
    \/ \E s \in CatalogServers, raws \in SUBSET CatalogToolNames :
            CatalogListTools(s, raws)

\* the manager's catalog alone, over any configuration and any replies
CatalogSpec == InitRL /\ [][CatalogNext]_vars

\* the number of tools the backends reported in this rebuild
RECURSIVE TotalReported(_)
TotalReported(servers) ==
    IF servers = {} THEN 0
    ELSE LET s == CHOOSE x \in servers : TRUE
         IN  Cardinality(reported[s]) + TotalReported(servers \ {s})

\* the default deployment when the client's tools/call lines carry
\* arguments, the same object on every line
InitArgs ==
    /\ RLInit /\ DispInit /\ ~authEnabled
    /\ tier = [maxTokens |-> 1, refillRate |-> 1]
    /\ \E a \in CallArgSets : callArgs = [i \in ReqIds |-> a]
    /\ keysFile = NoFile

ArgsSpec == InitArgs /\ [][Next]_vars

\* every pending I/O completion and timer of the event loop eventually runs
FairSpec == Spec /\ \A i \in ReqIds : WF_vars(HandlerStep(i))

\* TieredRateLimiter.checkLimit on tier 'default', next to the same call on
\* a limiter whose cleanup never runs
EvCheckLimit(id, cost) ==
    /\ RLCheckLimit(id, tier, cost)
    /\ LET u == CheckLimit(uncleaned, id, tier, cost, now)
       IN  /\ uncleaned' = [uncleaned EXCEPT ![id] = u.bucket]
           /\ uncleanedLast' = [op |-> "checkLimit",
                                fresh |-> (uncleaned[id] = NoBucket),
                                allowed |-> u.allowed,
                                remaining |-> u.remaining]
    /\ UNCHANGED evictFrame

\* the interval timer runs cleanup() on the one limiter
EvCleanup == RLCleanup /\ UNCHANGED <<evictFrame, shadowVars>>

EvTick == RLTick /\ UNCHANGED <<evictFrame, shadowVars>>

EvictNext ==
    \/ \E id \in Ids, cost \in Costs : EvCheckLimit(id, cost)
    \/ EvCleanup
    \/ EvTick

\* checkLimit calls and cleanup runs on a tier whose config stays as set
EvictSpec == Init /\ [][EvictNext]_vars

\* the rate limiter alone, driven by arbitrary callers; the dispatcher idles
SpecRL == InitRL /\ [][RLNext /\ UNCHANGED dispVars]_vars

\* the audit logger alone, driven by arbitrary callers; the rest idles
AuditSpec ==
    InitRL /\ [][AuditNext /\ UNCHANGED <<rlVars, tier, initialized, clients,
                                          proc, tools, req, out, fwd,
                                          stdoutNoise, lastComplete,
                                          inputVars, keyVars, auditVars,
                                          sideVars, managerAuthEnabled,
                                          life, signal, reported>>]_vars

\* ----------------------------------------------------------------- claims

ReachedExecuteTool(i) ==
    /\ req[i].method = "tools/call"
    /\ req[i].rl = "allowed"
    /\ req[i].name \notin InternalTools
    /\ req[i].live

\* C2 as claimed: executeTool on a name whose prefix before the first "." is
\* a registered, running backend forwards exactly one tools/call, to that
\* backend, with the whole suffix after the first "." as the tool name -
\* also when the suffix contains ".".
C2_ForwardsWholeSuffix ==
    \A i \in ReqIds :
        ReachedExecuteTool(i) =>
            fwd[i] = << [backend |-> Prefix(req[i].name),
                         tool |-> Suffix(req[i].name)] >>

\* C2 amended: the same for names with exactly one "."; a name whose suffix
\* contains "." is rejected and nothing is forwarded for it.
C2_ForwardsOneDotNames ==
    \A i \in ReqIds :
        ReachedExecuteTool(i) =>
            /\ DotCount(req[i].name) = 1 =>
                   fwd[i] = << [backend |-> Prefix(req[i].name),
                                tool |-> Suffix(req[i].name)] >>
            /\ DotCount(req[i].name) > 1 =>
                   /\ fwd[i] = << >>
                   /\ req[i].pc \in {"failAudit", "done"}
                   /\ req[i].pc = "done" => out[i] = << ErrorResponse(PlainError) >>

\* C2 witness: one call was forwarded and one with a dotted suffix rejected
C2_Witness ==
    \E i, j \in ReqIds :
        /\ ReachedExecuteTool(i) /\ DotCount(req[i].name) = 1 /\ Len(fwd[i]) = 1
        /\ ReachedExecuteTool(j) /\ DotCount(req[j].name) = 2 /\ req[j].pc = "done"

\* C3: when one backend fails to start while another starts, initialize
\* still succeeds (and the server is initialized).
C3_StartupSurvivesBackendFailure ==
    \A i \in ReqIds :
        ( /\ req[i].method = "initialize" /\ req[i].pc = "done"
          /\ \E s \in ConfigServers : req[i].starts[s] = "failed"
          /\ \E s \in ConfigServers : req[i].starts[s] = "ok" ) =>
            /\ out[i] = << ResultResponse >>
            /\ initialized

C5_ListSeesCompleteCatalog ==
    \A i \in ReqIds : req[i].method = "tools/list" => ~req[i].partial

\* C6: a tools/list or tools/call read while no initialize has been answered
\* with success gets error -32002 at once, without a rate-limit check and
\* without any backend being contacted.
C6_NotInitializedRejected ==
    \A i \in ReqIds :
        ( /\ req[i].method \in {"tools/list", "tools/call"}
          /\ req[i].noInit ) =>
            /\ req[i].pc = "done"
            /\ out[i] = << BareError(-32002) >>
            /\ req[i].rl = "none"
            /\ fwd[i] = << >>
            /\ req[i].listed = {}

\* C6 witness: a tools/call rejected after one initialize failed and while
\* another is still in progress
C6_Witness ==
    \E i, j, k \in ReqIds :
        /\ req[i].method = "initialize" /\ req[i].pc = "done"
        /\ out[i][1].kind = "error"
        /\ req[j].method = "initialize" /\ req[j].pc \in {"starting", "agg"}
        /\ req[k].method = "tools/call" /\ req[k].noInit
        /\ req[k].name = <<"e", Dot, "s">>

\* C7: nothing but JSON-RPC responses is written to stdout.
C7_StdoutOnlyResponses == stdoutNoise = {}

\* C8: a tools/call denied by the rate limiter is answered with an error
\* whose data.code is RATE_LIMIT_EXCEEDED and whose data.details.retryAfter
\* is a positive integer.
C8_RateLimitErrorTyped ==
    \A i \in ReqIds :
        (req[i].rl = "denied" /\ req[i].pc = "done") =>
            /\ Len(out[i]) = 1
            /\ out[i][1].kind = "error"
            /\ out[i][1].dataCode = "RATE_LIMIT_EXCEEDED"
            /\ out[i][1].retryAfter \in Nat \ {0}

\* C9: every stored bucket holds between 0 and maxTokens tokens.
C9_TokensWithinBounds ==
    \A id \in Ids :
        buckets[id] # NoBucket =>
            /\ 0 <= buckets[id].tokens
            /\ buckets[id].tokens <= buckets[id].maxTokens * Scale

\* the last call was a checkLimit during which no token was refilled
CheckedWithoutRefill(last) == last.op = "checkLimit" /\ last.added = 0

\* C10, the law: with no refill, checkLimit(cost c) on t tokens is allowed iff
\* t >= c; allowed, it takes exactly c and reports floor(t - c); denied, it
\* leaves t and reports 0.  So cost = maxTokens empties a full bucket and is
\* denied on an empty one.
C10_Law ==
    CheckedWithoutRefill(rlLast) =>
        /\ rlLast.allowed <=> rlLast.held >= rlLast.cost * Scale
        /\ rlLast.allowed =>
              /\ rlLast.left = rlLast.held - rlLast.cost * Scale
              /\ rlLast.remaining = (rlLast.held - rlLast.cost * Scale) \div Scale
        /\ ~rlLast.allowed =>
              /\ rlLast.left = rlLast.held
              /\ rlLast.remaining = 0
        /\ (rlLast.cost = rlLast.max /\ rlLast.held = rlLast.max * Scale) =>
              rlLast.allowed /\ rlLast.left = 0 /\ rlLast.remaining = 0
        /\ (rlLast.cost = rlLast.max /\ rlLast.held = 0) => ~rlLast.allowed

\* C10, two checks in a row: two immediate cost-1 checks of one identifier,
\* the first on a full bucket of at least 2 tokens, report max-1 and max-2.
C10_TwoChecks ==
    ( /\ rlLast.op = "checkLimit" /\ rlLast'.op = "checkLimit"
      /\ now' = now
      /\ rlLast'.id = rlLast.id
      /\ rlLast.cost = 1 /\ rlLast'.cost = 1
      /\ rlLast.max >= 2 /\ rlLast.held = rlLast.max * Scale
      /\ rlLast'.added = 0 /\ ~rlLast'.fresh ) =>
        /\ rlLast.allowed /\ rlLast.remaining = rlLast.max - 1
        /\ rlLast'.allowed /\ rlLast'.remaining = rlLast.max - 2

\* C10: the law holds of every checkLimit call and of every two in a row.
C10_CheckLimitArithmetic == []C10_Law /\ [][C10_TwoChecks]_vars

\* C10 witness: a check allowed on a bucket holding a fractional number of
\* tokens, with no refill during the call
C10_Witness ==
    /\ CheckedWithoutRefill(rlLast)
    /\ ~rlLast.fresh
    /\ rlLast.allowed
    /\ rlLast.cost = 1
    /\ rlLast.held % Scale = 1

\* the spec's rule: the lowercase form of the key contains one of these
SpecSensitiveWords ==
    { << "p", "a", "s", "s", "w", "o", "r", "d" >>,
      << "s", "e", "c", "r", "e", "t" >>,
      << "t", "o", "k", "e", "n" >>,
      << "a", "p", "i", "k", "e", "y" >>,
      << "a", "p", "i", "_", "k", "e", "y" >> }

\* C11: in every tool_execution event each argument whose key, in lowercase,
\* contains password, secret, token, apikey or api_key is recorded as
\* ***REDACTED***, and every other argument with the value it was passed.
C11_SensitiveArgumentsRedacted ==
    \A e \in BagToSet(events) :
        e.type = "tool_execution" =>
            /\ DOMAIN e.parameters = DOMAIN e.given
            /\ \A key \in DOMAIN e.given :
                  e.parameters[key] =
                      IF \E w \in SpecSensitiveWords : Includes(ToLowerCase(key), w)
                      THEN Redacted
                      ELSE e.given[key]

\* C12: every tools/call written to a backend - each item of an
\* execute_parallel call included - was preceded by a rate-limit check of its
\* own (cost 1, allowed) and, with auth enabled, by a permission check for
\* tools:<backend>.<tool> of that very tool.
C12_EveryInvocationChecked ==
    \A i \in ReqIds :
        /\ Len(fwd[i]) <= (IF req[i].rl = "allowed" THEN 1 ELSE 0)
        /\ authEnabled =>
              \A k \in 1 .. Len(fwd[i]) :
                  req[i].perm =
                      ToolPermission(QualifiedName(fwd[i][k].backend, fwd[i][k].tool))

\* a tools/call, past the rate limiter, of a tool that the caller's key does
\* not permit, in a deployment with auth enabled
LacksPermission(i) ==
    /\ authEnabled
    /\ req[i].method = "tools/call"
    /\ req[i].rl = "allowed"
    /\ ~PermissionMatches(KeyPermissions, ToolPermission(req[i].name))

C14_KeyPatternDecides ==
    \A i \in ReqIds :
        ( /\ authEnabled /\ req[i].method = "tools/call"
          /\ req[i].rl = "allowed" /\ req[i].pc = "done" ) =>
            /\ req[i].name = << "e", Dot, "s" >> =>
                  out[i][1].dataCode # "AUTHORIZATION_ERROR"
            /\ req[i].name = << "o", Dot, "s" >> =>
                  /\ out[i][1].kind = "error"
                  /\ out[i][1].dataCode = "AUTHORIZATION_ERROR"

\* a finished tools/call that passed the rate limiter and that executeTool
\* rejected before writing anything to a backend
RejectedByExecuteTool(i) ==
    /\ ~authEnabled
    /\ req[i].method = "tools/call"
    /\ req[i].rl = "allowed"
    /\ req[i].name \notin InternalTools
    /\ fwd[i] = << >>
    /\ req[i].pc = "done"

\* C15: executeTool's rejections are typed: a name without exactly one "." is
\* answered with -32602 (ValidationError), a name of a backend that is not
\* registered with -32000 and data.code TOOL_NOT_FOUND or MCP_SERVER_ERROR,
\* a registered backend that is not running with a typed error of its own.
C15_RejectionsTyped ==
    \A i \in ReqIds :
        RejectedByExecuteTool(i) =>
            /\ out[i][1].kind = "error"
            /\ IF DotCount(req[i].name) # 1
               THEN /\ out[i][1].code = -32602
                    /\ out[i][1].dataCode = "VALIDATION_ERROR"
               ELSE IF Prefix(req[i].name) \notin ConfigServers
               THEN /\ out[i][1].code = -32000
                    /\ out[i][1].dataCode \in {"TOOL_NOT_FOUND", "MCP_SERVER_ERROR"}
               ELSE out[i][1].dataCode # "INTERNAL_ERROR"

\* C16: an execute_parallel run with continueOnError = false whose first
\* request fails returns exactly one result and never starts a later request,
\* whatever maxConcurrency is.
C16_StopsAtFirstFailure ==
    \A i \in ReqIds :
        ( /\ req[i].par.finished
          /\ ~req[i].par.continueOnError
          /\ req[i].par.status[1] = "failed" ) =>
            /\ Len(req[i].par.results) = 1
            /\ \A k \in 2 .. Len(req[i].par.items) : req[i].par.status[k] = "none"

\* C17: an initialize read after another initialize has succeeded, or while
\* one is in progress, loads no configuration, registers no client and
\* spawns no backend.
C17_InitializeOneShot ==
    \A i, j \in ReqIds :
        ( /\ j < i
          /\ req[i].method = "initialize" /\ req[j].method = "initialize"
          /\ (req[j].pc # "done" \/ out[j] = << ResultResponse >>) ) =>
            /\ req[i].pc = "done"
            /\ \A s \in ConfigServers : req[i].starts[s] = "none"

\* C18: once the client has closed stdin (EOF), the aggregator eventually
\* shuts down gracefully: every backend is stopped by stopAll and the process
\* exits with code 0.
C18_EofLeadsToShutdown ==
    (life = "eof") ~>
        (life = "exited" /\ clients = {} /\ \A s \in ConfigServers : proc[s] = "null")

C20_QualifiedNamesUnique ==
    /\ \A s1 \in DOMAIN reported, s2 \in DOMAIN reported :
         \A r1 \in reported[s1], r2 \in reported[s2] :
            <<s1, r1>> # <<s2, r2>>
                => QualifiedName(s1, r1) # QualifiedName(s2, r2)
    /\ Cardinality(tools) = TotalReported(DOMAIN reported)

\* C21: every tools/call has its arguments checked against the called
\* tool's declared parameters before the tool runs: when an argument is
\* missing, of the wrong type, violates a constraint or is undeclared, the
\* call is answered with ValidationError (-32602) and the tool is not run -
\* nothing is forwarded to a backend and no result is returned.
C21_ArgumentsValidated ==
    \A i \in ReqIds :
        ( /\ req[i].method = "tools/call"
          /\ req[i].name # << >>
          /\ ~req[i].noInit
          /\ req[i].rl = "allowed"
          /\ ValidateOrThrow(DeclaredParameters(req[i].name), callArgs[i]) )
        => /\ fwd[i] = << >>
           /\ \A k \in 1 .. Len(out[i]) :
                 out[i][k].kind = "error" /\ out[i][k].code = -32602

\* C22: with auth enabled, validateApiKey never returns an authenticated
\* context for a key that is disabled, for a key whose expiresAt lies in the
\* past, or for a plaintext whose hash matches no stored record: each such
\* call throws AuthenticationError - whatever generate, revoke, delete, save
\* and load operations came before.
C22_NoContextForUnusableKey ==
    (authLast.op = "validate" /\ authLast.enabled) =>
        LET keys == authLast.keys
            matching == { id \in DOMAIN keys :
                            keys[id].hashedKey = HashKey(authLast.plain) }
        IN  ( \/ matching = {}
              \/ \E id \in matching :
                    \/ ~keys[id].enabled
                    \/ keys[id].expiresAt # NoTime /\ keys[id].expiresAt < authLast.at )
            => /\ authLast.result.threw
               /\ ~authLast.result.authenticated
               /\ apiKeys = keys

\* a revoked key that was saved and loaded again is presented and refused
C22_Witness ==
    /\ authLast.op = "validate"
    /\ authLast.enabled
    /\ authLast.result.threw
    /\ keysFile.exists
    /\ \E id \in DOMAIN authLast.keys :
          /\ authLast.keys[id].hashedKey = HashKey(authLast.plain)
          /\ ~authLast.keys[id].enabled
          /\ authLast.keys[id].key = << >>
          /\ id \in DOMAIN keysFile.apiKeys

PreservedFields ==
    { "id", "hashedKey", "name", "permissions", "enabled", "createdAt",
      "expiresAt" }

\* C24: saveToFile followed by loadFromFile into a fresh AuthManager yields,
\* for every record, the same id, hashedKey, name, permissions, enabled,
\* createdAt and expiresAt as before the save.
C24_SaveLoadPreserves ==
    (authLast.op = "loadFresh" /\ keysFile = SavedFile(apiKeys, managerAuthEnabled))
        => /\ DOMAIN authLast.keys = DOMAIN apiKeys
           /\ \A id \in DOMAIN apiKeys : \A f \in PreservedFields :
                 authLast.keys[id][f] = apiKeys[id][f]

\* a fresh manager has loaded the file a save of a revoked key with an
\* expiry wrote
C24_Witness ==
    /\ authLast.op = "loadFresh"
    /\ keysFile = SavedFile(apiKeys, managerAuthEnabled)
    /\ \E id \in DOMAIN apiKeys :
          /\ ~apiKeys[id].enabled
          /\ apiKeys[id].expiresAt # NoTime
          /\ apiKeys[id].key # << >>

\* C23: if authentication is requested (AUTH_ENABLED=true) but the API-key
\* file does not exist, authentication is disabled after initialize: the
\* auth manager reports auth as not enabled and no tools/call is rejected
\* for lack of permission.
C23_MissingFileDisablesAuth ==
    (authEnabled /\ ~keysFile.exists /\ initialized)
        => /\ ~managerAuthEnabled
           /\ \A i \in ReqIds : \A k \in 1 .. Len(out[i]) :
                 out[i][k].dataCode # "AUTHORIZATION_ERROR"

\* C25: after any sequence of log, load and cleanup operations the
\* in-memory audit buffer holds at most 10 000 events (MaxBuffered, scaled),
\* and they are the most recently accepted events in insertion order.
C25_BufferHoldsMostRecent ==
    /\ Len(events) <= MaxBuffered
    /\ events = SliceLast(accepted, MaxBuffered)

\* the value with every ${NAME} token replaced by env's value of NAME, and
\* left as it is when NAME is not set
RECURSIVE Expanded(_, _)
Expanded(value, env) ==
    IF value = << >> THEN << >>
    ELSE IF Len(value) >= 3 /\ value[1] = "${" /\ value[3] = "}"
    THEN (IF value[2] \in DOMAIN env THEN env[value[2]]
          ELSE SubSeq(value, 1, 3))
            \o Expanded(SubSeq(value, 4, Len(value)), env)
    ELSE << Head(value) >> \o Expanded(Tail(value), env)

\* C26: before a backend is spawned, every ${NAME} token in each value of
\* its configured env is replaced by the aggregator's own environment value
\* of NAME, and is left literally only when NAME is unset; the child process
\* receives the expanded values.
C26_ChildEnvExpanded ==
    lastCall.op = "spawn" =>
        \A k \in DOMAIN lastCall.configEnv :
            lastCall.env[k] = Expanded(lastCall.configEnv[k], lastCall.processEnv)

\* what a tools/list request would be answered with in the current state
ToolsListAnswer ==
    [replies |-> ToolsListReplies,
     tools |-> IF NotInitialized THEN {} ELSE ToolsListEntries]

\* C27: a ping changes nothing observable through tools/list: the answer a
\* tools/list gets right after a ping is the answer it would have got right
\* before it, so the tool set listed after initialize is the tool set listed
\* after any number of subsequent pings.
C27_PingLeavesToolsList ==
    [][ (\E i \in ReqIds : ReadPing(i)) => ToolsListAnswer' = ToolsListAnswer ]_vars

\* after a successful initialize a ping was answered, and the tools/list
\* after it listed the aggregated catalog
C27_Witness ==
    \E i \in ReqIds, j \in ReqIds :
        /\ i < j
        /\ req[i].method = "ping" /\ ~req[i].noInit /\ Len(out[i]) = 1
        /\ req[j].method = "tools/list" /\ ~req[j].noInit
        /\ req[j].entries = ToolsListEntries
        /\ \E e \in req[j].entries : e.name \notin InternalTools

\* C28: ToolRegistry.execute(name, parameters) on a registered tool invokes
\* the implementation with the given parameters unchanged and resolves to
\* the implementation's return value, for any parameters object that
\* supplies the tool's required parameters - one that also carries a key
\* the metadata does not declare (param2 next to param1) included.
C28_ExecutePassesParameters ==
    ( /\ lastCall.op = "execute"
      /\ lastCall.name \in DOMAIN Registered
      /\ ~lastCall.implThrows
      /\ \A p \in Registered[lastCall.name] :
            p.required =>
                /\ p.name \in DOMAIN lastCall.parameters
                /\ lastCall.parameters[p.name].type = p.type )
    => /\ lastCall.result.threw = "none"
       /\ lastCall.result.call = [invoked |-> TRUE, with |-> lastCall.parameters]
       /\ lastCall.result.resolved = lastCall.parameters

\* C29: when a backend client terminates, by stop() or by its child exiting
\* on its own, every waiter in the table at that moment is completed with
\* the cancellation error and the table is empty afterwards.
C29_TerminationCancelsWaiters ==
    [][ (ClientStop \/ ChildExit) =>
            /\ pendingRequests' = {}
            /\ \A id \in pendingRequests :
                   settled'[id] = << "MCP client stopped" >> ]_vars

\* a response that has no waiter completes nothing
LateResponseDiscarded ==
    \A id \in ResponseIds :
        (id \notin pendingRequests
            /\ \E isError \in BOOLEAN : HandleResponse(id, isError))
        => settled' = settled

\* C30: every request written to the backend is completed exactly once, by
\* its response, by its timeout or by stop(); a request that timed out is no
\* longer in the table, and a response that arrives for an id without a
\* waiter completes no waiter at all.
C30_CompletedExactlyOnce ==
    /\ [](\A id \in RequestIds :
            /\ Len(settled[id]) <= 1
            /\ id \in pendingRequests => settled[id] = << >>
            /\ id > requestId => settled[id] = << >>)
    /\ [][LateResponseDiscarded]_vars
    /\ \A id \in RequestIds :
            (id <= requestId) ~> (Len(settled[id]) = 1 /\ id \notin pendingRequests)

\* a request timed out, its response came afterwards and was dropped, while
\* another request was still waiting
C30_Witness ==
    /\ clientLast.warned \in RequestIds
    /\ clientLast.settled = << "Request timeout" >>
    /\ pendingRequests # {}

\* C31: isRunning() is true exactly when the child exists and has not
\* exited: once the child has exited, for whatever reason, it is false.
C31_IsRunningIffChildAlive == ClientIsRunning <=> child = "running"

\* the client has been stopped, or its child has exited
Terminated == spawns > 0 /\ child # "running"

\* C32: a terminated client stays terminated: no later operation on it,
\* start() included, spawns a process or makes isRunning() true again.
C32_TerminatedIsTerminal ==
    [][ Terminated => (spawns' = spawns /\ ~ClientIsRunning') ]_vars

\* C33: stop() can be called in every state of the client and always
\* returns; it rejects each request outstanding at that moment once, with
\* the client-stopped error, completes no other request, and leaves no
\* process, no line reader and an empty table; on a stopped client it
\* changes none of this.
C33_StopIdempotent ==
    /\ [](ENABLED ClientStop)
    /\ [][ ClientStop =>
            /\ child' = "null" /\ ~lineReader' /\ pendingRequests' = {}
            /\ \A id \in RequestIds :
                   settled'[id] = IF id \in pendingRequests
                                  THEN << "MCP client stopped" >>
                                  ELSE settled[id]
            /\ (child = "null" /\ ~lineReader /\ pendingRequests = {})
                   => settled' = settled ]_vars

\* stop() was called again on a stopped client whose first stop() had
\* rejected an outstanding request
C33_Witness ==
    /\ clientLast = Did("stop: nothing to do")
    /\ child = "null" /\ ~lineReader /\ pendingRequests = {}
    /\ \E id \in RequestIds : settled[id] = << "MCP client stopped" >>

\* C34: the pending-request table never holds more entries than there are
\* calls a caller still awaits: every entry belongs to a call that is still
\* awaited, a call given up by execute_parallel's per-item timeout included.
C34_EntriesAreAwaited ==
    /\ pendingRequests \subseteq awaiting
    /\ Cardinality(pendingRequests) <= Cardinality(awaiting)

\* C35: every child process that was spawned and has not been stopped
\* belongs to a client registered in the manager's map, so that stopAll
\* reaches it, whatever initialize requests came before.
C35_ChildrenAreOwned == (alive \ signalled) \subseteq Owned

\* C40: stopAll leaves no backend process alive: every child it signalled
\* is gone after a bounded time, a child that does not exit on the
\* termination signal being killed after a grace period.
C40_StopAllLeavesNoChild ==
    \A x \in Children : (x \in signalled) ~> (x \notin alive)

\* C36: executeParallel terminates for every request list and every
\* maxConcurrency a client can send, 0 and negative numbers included: the
\* batching ends and a summary is returned.
C36_ExecuteParallelTerminates ==
    (batching.pc = "createBatches") ~> (batching.pc = "returned")

\* how many events of the audit buffer satisfy a test on type and result
RECURSIVE CountIn(_, _, _)
CountIn(es, type, result) ==
    IF es = {} THEN 0
    ELSE LET e == CHOOSE x \in es : TRUE
         IN  (IF e.type = type /\ e.result = result
              THEN CopiesIn(e, events) ELSE 0)
             + CountIn(es \ {e}, type, result)
AuditCount(type, result) == CountIn(BagToSet(events), type, result)

\* the tools/call requests that got as far as the rate limiter
PastNameCheck == { i \in ReqIds : req[i].method = "tools/call" /\ req[i].rl # "none" }
Denied == { i \in PastNameCheck : req[i].rl = "denied" }
ResultSent == { i \in PastNameCheck : out[i] # << >> /\ out[i][1].kind = "result" }

\* C37: once every tools/call has run to its end, the audit buffer holds one
\* tool_execution success event for every call whose result was sent, one
\* rate_limit event and no tool_execution event for every call the rate
\* limiter denied, and one tool_execution failure event for every other call.
C37_OneOutcomeRecordPerCall ==
    (\A i \in ReqIds : req[i].pc \in { "unread", "done" }) =>
        /\ AuditCount("tool_execution", "success") = Cardinality(ResultSent)
        /\ AuditCount("rate_limit", "failure") = Cardinality(Denied)
        /\ AuditCount("tool_execution", "failure")
               = Cardinality(PastNameCheck \ (Denied \cup ResultSent))

\* a bucket counts as full when the tokens due since its last refill fill it
FullOnceRefilled(bucket, t) ==
    RefillBucket(bucket, t).tokens >= bucket.maxTokens * Scale

\* C38: a cleanup run removes every bucket that has been idle for longer
\* than maxAge and is full, a bucket that has had the time to refill
\* completely counting as full; so the bucket of an identifier that went
\* quiet does not stay in the map.
C38_CleanupEvictsRefilledBuckets ==
    [][ RLCleanup =>
          \A id \in Ids :
             (/\ buckets[id] # NoBucket
              /\ now - buckets[id].lastRefill > MaxAge
              /\ FullOnceRefilled(buckets[id], now))
                 => buckets'[id] = NoBucket ]_vars

\* C39: cleanup cannot be seen through checkLimit: every checkLimit returns
\* the allowed flag and the remaining count that the same sequence of calls
\* returns when cleanup never runs.
C39_EvictionUnobservable ==
    rlLast.op = "checkLimit" =>
        /\ rlLast.allowed = uncleanedLast.allowed
        /\ rlLast.remaining = uncleanedLast.remaining

\* checkLimit ran on an identifier whose bucket cleanup had removed
C39_Witness ==
    /\ rlLast.op = "checkLimit"
    /\ rlLast.fresh
    /\ ~uncleanedLast.fresh

====
